---- MODULE Spec2Model ----
(***************************************************************************)
(* The LaunchDarkly bridge layer of ld-dj-toggle                           *)
(* (website/src/repl/components/button/action-button.jsx, lines 44-459):   *)
(* the Flag Store, the scalar bridge flag(), polySpeed, the three          *)
(* parameter bundles, toggle, getLeadArrangement and setcpmFlag.           *)
(*                                                                         *)
(* JavaScript values are tagged tuples: <<"undefined">>, <<"null">>,       *)
(* <<"bool", b>>, <<"str", chars>> (a string is the sequence of its        *)
(* characters), <<"arr", seq>>, <<"obj", record>> and numbers.             *)
(*                                                                         *)
(* A number is an IEEE-754 double, written by its shortest decimal (the    *)
(* digits Number::toString gives it):                                      *)
(*   <<"num", n, d>>  the fraction n/d in lowest terms, d a divisor of a   *)
(*                    power of ten, for a decimal of nine digits at most   *)
(*                    (1.5 is <<"num", 3, 2>>); <<"num", 0, 1>> is 0,      *)
(*                    <<"num", 0, -1>> is -0, <<"num", 0, 0>> NaN and      *)
(*                    <<"num", 1, 0>>, <<"num", -1, 0>> the infinities;    *)
(*   <<"num", sign, digits, n>>  sign * 0.d1d2... * 10^n for any other     *)
(*                    double (1/3 is <<"num", 1, <<3, ..., 3>>, 0>> with   *)
(*                    sixteen digits).                                     *)
(* Where a fraction n/d that is no such decimal is given for a number, it  *)
(* stands for the double nearest to n/d.                                   *)
(*                                                                         *)
(* An array or object the provider delivers carries an identity as a       *)
(* third component, <<"arr", seq, id>>: a value delivered again is a new   *)
(* array with an identity of its own.  An array or object without it is    *)
(* one the script wrote (an argument of a call), the same object wherever  *)
(* it appears.  An expression that throws has the value                    *)
(* <<"throws", "TypeError">>.                                              *)
(***************************************************************************)
EXTENDS Integers, Sequences, FiniteSets, TLC

VARIABLES
  flags,            \* the Flag Store: key -> raw value (Absent: no property)
  carried,          \* key -> the value the latest snapshot or notification
                    \* that mentioned the key carried for it
  served,           \* the values the provider serves: key -> set of raw values
  ldClient,         \* TRUE once LDClient.initialize has returned a client
  provider,         \* the provider connection: none, connecting, ready, failed
  promise,          \* the promise the latest initLaunchDarkly call returned
  flagDefault,      \* defaultValue given to flag(key, defaultValue)
  flagCache,        \* per flag() instance: [cachedValue, cachedPattern]
  flagLog,          \* observations of the most recent flag() queries
  variations,       \* the registry given to getLeadArrangement: name -> entry
  defaultVariation, \* its defaultVariation argument
  leadCache,        \* per selector instance: [cachedVariationKey, cachedPattern]
  leadLog,          \* observations of the most recent selector queries
  changeHandlers,   \* the handlers registered with ldClient.on('change'), in order
  tempoListeners,   \* the tempoListeners map: flag key -> listener
  hasSetcpm,        \* globalThis.setcpm (or setCpm) is a function
  cpm,              \* the tempo last given to setcpm
  tempoLog,         \* observations of the most recent setcpmFlag calls
  notified,         \* what the tempo listeners computed on the latest notification
  bridgeKind,       \* the stateless bridge built on the base pattern, if any
  bridgeKey,        \* the flagKey argument it was built with
  bridgeDefault,    \* the defaultValue argument it was built with
  baseValue,        \* the payload of the base pattern's events
  bridgeLog,        \* observation of its most recent query
  running,          \* the bundle query in progress: its window and the events
                    \* its callback has returned so far (<<>>: none)
  dirty             \* per bridge instance: store writes since its last query

flagVars == <<flagDefault, flagCache, flagLog>>
leadVars == <<variations, defaultVariation, leadCache, leadLog>>
tempoVars == <<tempoListeners, hasSetcpm, cpm, tempoLog, notified>>
bridgeVars == <<bridgeKind, bridgeKey, bridgeDefault, baseValue, bridgeLog, running>>
vars == <<flags, carried, served, ldClient, provider, promise, changeHandlers, flagVars,
          leadVars, tempoVars, bridgeVars, dirty>>

---------------------------------------------------------------------------
(* JavaScript values                                                       *)

Undefined == <<"undefined">>
Null == <<"null">>
Bool(b) == <<"bool", b>>
Num(n) == <<"num", n, 1>>
NaN == <<"num", 0, 0>>
Str(s) == <<"str", s>>
Arr(a) == <<"arr", a>>
Obj(o) == <<"obj", o>>

IsString(v) == v[1] = "str"

RECURSIVE GCD(_, _)
GCD(a, b) == IF b = 0 THEN a ELSE GCD(b, a % b)

Abs(n) == IF n < 0 THEN -n ELSE n
Sign(n) == IF n < 0 THEN -1 ELSE IF n > 0 THEN 1 ELSE 0

RECURSIVE Pow10(_)
Pow10(k) == IF k = 0 THEN 1 ELSE 10 * Pow10(k - 1)

\* Negative zero.
NegZero == <<"num", 0, -1>>

\* What a conversion gives in place of a value when it throws a TypeError.
TypeError == <<"throws", "TypeError">>

\* The digits of a natural number that is an integer of the model.
RECURSIVE BigOf(_)
BigOf(n) == IF n = 0 THEN <<>> ELSE <<n % 10>> \o BigOf(n \div 10)


\* The number with the decimal sign * 0.d1d2... * 10^n for its shortest
\* decimal: <<"num", numerator, denominator>> in lowest terms when the
\* decimal has at most nine digits, nine before and nine after the point;
\* <<"num", sign, digits, n>> otherwise.
Canonical(sign, digits, n) ==
  LET k == Len(digits)
      RECURSIVE Natural(_)
      Natural(j) == IF j = 0 THEN 0 ELSE Natural(j - 1) * 10 + digits[j]
      Lowest(s, d, g) == <<"num", (sign * s) \div g, d \div g>>
      Fraction(s, d) == Lowest(s, d, GCD(s, d))
  IN IF k <= 9 /\ n <= 9 /\ k - n <= 9
       THEN IF n >= k THEN <<"num", sign * Natural(k) * Pow10(n - k), 1>>
            ELSE Fraction(Natural(k), Pow10(k - n))
       ELSE <<"num", sign, digits, n>>

\* The characters U+0020 to U+007E, in order (the grave accent as `).
Ascii ==
  <<" ", "!", "\"", "#", "$", "%", "&", "'", "(", ")", "*", "+", ",", "-", ".",
    "/", "0", "1", "2", "3", "4", "5", "6", "7", "8", "9", ":", ";", "<", "=",
    ">", "?", "@", "A", "B", "C", "D", "E", "F", "G", "H", "I", "J", "K", "L",
    "M", "N", "O", "P", "Q", "R", "S", "T", "U", "V", "W", "X", "Y", "Z", "[",
    "\\", "]", "^", "_", "\\u0060", "a", "b", "c", "d", "e", "f", "g", "h", "i", "j",
    "k", "l", "m", "n", "o", "p", "q", "r", "s", "t", "u", "v", "w", "x", "y",
    "z", "{", "|", "}", "~">>

\* The character with a code: a character of Ascii, a tab, line feed, form
\* feed or carriage return; any other character is written \uXXXX (one
\* element of the sequence of a string).
CharOf(code) ==
  LET hex == <<"0", "1", "2", "3", "4", "5", "6", "7", "8", "9", "A", "B", "C",
               "D", "E", "F">>
  IN IF code \in 32..126 THEN Ascii[code - 31]
     ELSE IF code = 9 THEN "\t"
     ELSE IF code = 10 THEN "\n"
     ELSE IF code = 12 THEN "\f"
     ELSE IF code = 13 THEN "\r"
     ELSE "\\u" \o hex[(code \div 4096) + 1] \o hex[((code \div 256) % 16) + 1]
            \o hex[((code \div 16) % 16) + 1] \o hex[(code % 16) + 1]

Digits == <<"0", "1", "2", "3", "4", "5", "6", "7", "8", "9">>
IsDigit(c) == \E i \in 1..10 : Digits[i] = c

\* The run of digits of s from position i: <<its value, the number of
\* digits>>; the value is that of the first nine digits at most.
RECURSIVE DigitRun(_, _, _, _)
DigitRun(s, i, acc, count) ==
  LET DigitValue(c) == (CHOOSE k \in 1..10 : Digits[k] = c) - 1
  IN IF i <= Len(s) /\ IsDigit(s[i])
       THEN DigitRun(s, i + 1,
                     IF count < 9 THEN acc * 10 + DigitValue(s[i]) ELSE acc,
                     count + 1)
       ELSE <<acc, count>>

\* The white space a conversion to a number skips: the WhiteSpace and
\* LineTerminator code points of ECMAScript.
WhiteSpace ==
  { CharOf(code) : code \in {9, 10, 11, 12, 13, 32, 160, 5760, 8232, 8233, 8239,
                             8287, 12288, 65279} \cup (8192..8202) }

\* The first position of s at or after i that holds no white space.
RECURSIVE SkipWhite(_, _)
SkipWhite(s, i) ==
  IF i <= Len(s) /\ s[i] \in WhiteSpace THEN SkipWhite(s, i + 1) ELSE i

\* The arithmetic of doubles and the conversions between numbers and
\* strings use one another.  They are the cases of one recursive operator,
\* Exact, each under the name of its operator: Exact("Rat", <<n, d>>) is
\* Rat(n, d).
RECURSIVE Exact(_, _)
Big(op, a, b) == Exact("Big", <<op, a, b>>)
RoundRatio(N, D) == Exact("RoundRatio", <<N, D>>)
Shortest(m, e) == Exact("Shortest", <<m, e>>)
NumberOfDouble(sign, r) == Exact("NumberOfDouble", <<sign, r>>)
Rat(n, d) == Exact("Rat", <<n, d>>)
DoubleOf(v) == Exact("DoubleOf", <<v>>)
Decimal(sign, digits, n) == Exact("Decimal", <<sign, digits, n>>)
Arith(op, x, y) == Exact("Arith", <<op, x, y>>)
DecimalAt(s, i) == Exact("DecimalAt", <<s, i>>)
FloatPrefix(s) == Exact("FloatPrefix", <<s>>)
NumberOfString(s) == Exact("NumberOfString", <<s>>)
StringOf(v) == IF v[1] = "str" THEN v[2] ELSE Exact("StringOf", <<v>>)
ToNumber(v) == IF v[1] = "num" THEN v ELSE Exact("ToNumber", <<v>>)

Exact(name, args) ==
  \* A natural number of any size is the sequence of its decimal digits, the
  \* lowest first and the highest not zero (<<>> is 0).  Big(op, a, b) is
  \* a + b, a - b (for a >= b), a * b, the sign of a - b ("cmp"),
  \* <<a div b, a mod b>> ("/", for b > 0) and, for an integer b, a to the
  \* power b ("^").
  CASE name = "Big" ->
      LET op == args[1]  a == args[2]  b == args[3]
      IN (
        LET Zeros(k) == [i \in 1..k |-> 0]
            Tuple(f) == SubSeq(f, 1, Len(f))
            At(x, i) == IF i <= Len(x) THEN x[i] ELSE 0
            \* x without its d highest digits, d the number of its high zeros.
            Trimmed(x) ==
              SubSeq(x, 1, Len(x) - (CHOOSE d \in 0..Len(x) :
                                       /\ d = Len(x) \/ x[Len(x) - d] # 0
                                       /\ \A k \in 0..(d - 1) : x[Len(x) - k] = 0))
            n == IF Len(a) > Len(b) THEN Len(a) ELSE Len(b)
            s == Tuple([i \in 1..n |-> At(a, i) + At(b, i)])
            \* The carry into place i is that out of the nearest place below
            \* whose sum is not 9, d places below.
            Out(i, d) == IF d < i /\ s[i - d] >= 10 THEN 1 ELSE 0
            Carry(i) == Out(i, CHOOSE d \in 1..i : /\ d = i \/ s[i - d] # 9
                                                   /\ \A k \in 1..(d - 1) : s[i - k] = 9)
            Sum == Trimmed(Tuple([i \in 1..(n + 1) |->
                                    ((IF i <= n THEN s[i] ELSE 0) + Carry(i)) % 10]))
            \* The borrow from place i is that of the nearest place below where
            \* the digits differ.
            Owed(i, d) == IF d < i /\ a[i - d] < At(b, i - d) THEN 1 ELSE 0
            Borrow(i) ==
              Owed(i, CHOOSE d \in 1..i : /\ d = i \/ a[i - d] # At(b, i - d)
                                          /\ \A k \in 1..(d - 1) : a[i - k] = At(b, i - k))
            Difference == Trimmed(Tuple([i \in 1..Len(a) |->
                                           (a[i] - At(b, i) - Borrow(i) + 10) % 10]))
            \* The order of two numbers of one length, by the highest digit that
            \* differs, d places from the top.
            Differ(d) == IF d = Len(a) THEN 0
                         ELSE IF a[Len(a) - d] < b[Len(a) - d] THEN -1 ELSE 1
            Order == Differ(CHOOSE d \in 0..Len(a) :
                              /\ d = Len(a) \/ a[Len(a) - d] # b[Len(a) - d]
                              /\ \A k \in 0..(d - 1) : a[Len(a) - k] = b[Len(a) - k])
            \* The sum of a[i] * b[k - i + 1] for i from low to high: the products
            \* of the digits that meet in place k.
            RECURSIVE Column(_, _, _)
            Column(k, low, high) ==
              IF low > high THEN 0
              ELSE IF low = high THEN a[low] * b[k - low + 1]
              ELSE Column(k, low, (low + high) \div 2)
                     + Column(k, ((low + high) \div 2) + 1, high)
            columns == Tuple([k \in 1..(Len(a) + Len(b) - 1) |->
                                Column(k, IF k > Len(b) THEN k - Len(b) + 1 ELSE 1,
                                       IF k < Len(a) THEN k ELSE Len(a))])
            \* The digits that the columns have in their decimal place j: a
            \* number, j places up.  A column is less than 100000.
            Plane(j) == Trimmed(Zeros(j) \o Tuple([k \in 1..Len(columns) |->
                                                     (columns[k] \div Pow10(j)) % 10]))
            RECURSIVE Planes(_)
            Planes(j) == IF j = 0 THEN Plane(0) ELSE Big("+", Planes(j - 1), Plane(j))
            \* Long division, the digits of a from the highest down, from the first
            \* that can add a digit to the quotient.  Long(i, qr): qr is <<the
            \* quotient, the remainder>> of the digits of a above i.
            multiples == Tuple([c \in 1..9 |-> Big("*", b, <<c>>)])
            Multiple(c) == IF c = 0 THEN <<>> ELSE IF c = 10 THEN <<0>> \o b ELSE multiples[c]
            Taken(q, r, c) == <<<<c>> \o q, Big("-", r, Multiple(c))>>
            Brought(q, r) ==
              Taken(q, r, CHOOSE c \in 0..9 : /\ Big("cmp", Multiple(c), r) <= 0
                                              /\ Big("cmp", Multiple(c + 1), r) > 0)
            RECURSIVE Long(_, _)
            Long(i, qr) ==
              IF i = 0 THEN <<Trimmed(qr[1]), qr[2]>>
              ELSE IF Len(qr[2]) < Len(b) - 1
                THEN Long(i - 1, <<<<0>> \o qr[1], Trimmed(<<a[i]>> \o qr[2])>>)
              ELSE Long(i - 1, Brought(qr[1], Trimmed(<<a[i]>> \o qr[2])))
            first == IF Len(a) < Len(b) THEN 0 ELSE Len(a) - Len(b) + 1
            \* h * h, and a times more for an odd power.
            Squared(h) == IF b % 2 = 0 THEN Big("*", h, h) ELSE Big("*", Big("*", h, h), a)
        IN IF op = "^"
             THEN IF b = 0 THEN <<1>>
                  ELSE IF b < 10 /\ Len(a) = 1 THEN BigOf(a[1]^b)
                  ELSE Squared(Big("^", a, b \div 2))
           ELSE IF b = <<>>
             THEN IF op = "cmp" THEN (IF a = <<>> THEN 0 ELSE 1)
                  ELSE IF op = "*" THEN <<>> ELSE a
           ELSE IF a = <<>>
             THEN IF op = "cmp" THEN -1 ELSE IF op = "+" THEN b
                  ELSE IF op = "*" THEN <<>> ELSE <<<<>>, <<>>>>
           ELSE IF op = "*" THEN Planes(IF Len(a) = 1 \/ Len(b) = 1 THEN 1 ELSE 4)
           ELSE IF op = "/" THEN Long(first, <<<<>>, SubSeq(a, first + 1, Len(a))>>)
           ELSE IF op = "cmp"
             THEN IF Len(a) # Len(b) THEN (IF Len(a) < Len(b) THEN -1 ELSE 1) ELSE Order
           ELSE IF op = "+" THEN Sum
           ELSE Difference)
  \* String(v): the string a value converts to, as a property name or as an
  \* element of an array that is converted.  A number gives its shortest
  \* decimal, with an exponent from 1e21 up and below 1e-6.  An object gives
  \* "[object Object]", and TypeError when it has a property toString of its
  \* own: the values of the model hold no functions, so neither that property
  \* nor the valueOf that is tried after it gives a primitive value.
    [] name = "StringOf" ->
      LET v == args[1]
      IN (
        LET Chars(digits) == [i \in DOMAIN digits |-> Digits[digits[i] + 1]]
            Zeros(k) == [i \in 1..k |-> "0"]
            RECURSIVE Natural(_)
            Natural(n) == IF n < 10 THEN <<Digits[n + 1]>>
                          ELSE Natural(n \div 10) \o <<Digits[(n % 10) + 1]>>
            Finite(digits, n) ==
              IF Len(digits) <= n /\ n <= 21 THEN Chars(digits) \o Zeros(n - Len(digits))
              ELSE IF 0 < n /\ n <= 21
                THEN Chars(SubSeq(digits, 1, n)) \o <<".">>
                       \o Chars(SubSeq(digits, n + 1, Len(digits)))
              ELSE IF -6 < n /\ n <= 0 THEN <<"0", ".">> \o Zeros(-n) \o Chars(digits)
              ELSE <<Digits[digits[1] + 1]>>
                     \o (IF Len(digits) = 1 THEN <<>>
                         ELSE <<".">> \o Chars(SubSeq(digits, 2, Len(digits))))
                     \o <<"e", IF n - 1 < 0 THEN "-" ELSE "+">> \o Natural(Abs(n - 1))
            \* The shortest decimal of a number in a fraction: <<digits, n>>, from
            \* the numerator over the least power of ten for a denominator.
            number == IF Len(v) = 3 /\ v[3] > 1 THEN Rat(v[2], v[3]) ELSE v
            RECURSIVE Places(_)
            Places(j) == IF Pow10(j) % number[3] = 0 THEN j ELSE Places(j + 1)
            RECURSIVE Of(_)
            Of(s) == IF s < 10 THEN <<s>> ELSE Append(Of(s \div 10), s % 10)
            Ends(d) == CHOOSE i \in 1..Len(d) : d[i] # 0 /\ \A k \in (i + 1)..Len(d) : d[k] = 0
            Cut(d, j) == <<SubSeq(d, 1, Ends(d)), Len(d) - j>>
            Short(j) == Cut(Of(Abs(number[2]) * (Pow10(j) \div number[3])), j)
            DigitsOf == IF Len(number) = 4 THEN <<number[3], number[4]>>
                        ELSE Short(Places(0))
            Shortest10(decimal) == Finite(decimal[1], decimal[2])
            sign == IF v[2] < 0 THEN <<"-">> ELSE <<>>
            NumberString ==
              IF Len(v) = 3 /\ v[3] = 0
                THEN IF v[2] = 0 THEN <<"N", "a", "N">>
                     ELSE sign \o <<"I", "n", "f", "i", "n", "i", "t", "y">>
              ELSE IF v[2] = 0 THEN <<"0">>
              ELSE sign \o Shortest10(DigitsOf)
            RECURSIVE Joined(_)
            Joined(a) ==
              LET Rest(first, rest) ==
                    IF first = TypeError \/ rest = TypeError THEN TypeError
                    ELSE first \o (IF Len(a) > 1 THEN <<",">> ELSE <<>>) \o rest
              IN IF a = <<>> THEN <<>>
                 ELSE Rest(IF Head(a) \in {Null, Undefined} THEN <<>> ELSE StringOf(Head(a)),
                           Joined(Tail(a)))
        IN IF v[1] = "num" THEN NumberString
           ELSE IF v[1] = "bool"
             THEN (IF v[2] THEN <<"t", "r", "u", "e">> ELSE <<"f", "a", "l", "s", "e">>)
           ELSE IF v = Null THEN <<"n", "u", "l", "l">>
           ELSE IF v = Undefined THEN <<"u", "n", "d", "e", "f", "i", "n", "e", "d">>
           ELSE IF v[1] = "arr" THEN Joined(v[2])
           ELSE IF "toString" \in DOMAIN v[2] THEN TypeError
           ELSE <<"[", "o", "b", "j", "e", "c", "t", " ", "O", "b", "j", "e", "c",
                  "t", "]">>)
  \* The number a value converts to in an arithmetic expression: an array and
  \* an object convert through their strings, and the conversion throws when
  \* that one does.
    [] name = "ToNumber" ->
      LET v == args[1]
      IN (
        LET Of(string) == IF string = TypeError THEN TypeError ELSE NumberOfString(string)
        IN IF v[1] = "bool" THEN (IF v[2] THEN Num(1) ELSE Num(0))
           ELSE IF v = Null THEN Num(0)
           ELSE IF v[1] = "str" THEN NumberOfString(v[2])
           ELSE IF v[1] \in {"arr", "obj"} THEN Of(StringOf(v))
           ELSE NaN)
  \* Number(s) of a string: white space is trimmed from both ends; the rest is
  \* empty (0), a decimal literal, or 0x, 0o or 0b with digits of that base;
  \* NaN otherwise.
    [] name = "NumberOfString" ->
      LET s == args[1]
      IN (
        LET RECURSIVE TrimEnd(_)
            TrimEnd(t) == IF t # <<>> /\ t[Len(t)] \in WhiteSpace
                            THEN TrimEnd(SubSeq(t, 1, Len(t) - 1)) ELSE t
            lower == <<"0", "1", "2", "3", "4", "5", "6", "7", "8", "9",
                       "a", "b", "c", "d", "e", "f">>
            upper == <<"0", "1", "2", "3", "4", "5", "6", "7", "8", "9",
                       "A", "B", "C", "D", "E", "F">>
            Reversed(d) == [i \in 1..Len(d) |-> d[Len(d) - i + 1]]
            Whole(n) == Decimal(1, Reversed(n), Len(n))
            \* The digits of t after its prefix, in the base of the prefix.
            Based(t, base) ==
              LET IsDigitOf(c) == \E k \in 1..base : lower[k] = c \/ upper[k] = c
                  ValueOf(c) == (CHOOSE k \in 1..base : lower[k] = c \/ upper[k] = c) - 1
                  RECURSIVE Radix(_, _)
                  Radix(i, acc) ==
                    IF i > Len(t) THEN acc
                    ELSE Radix(i + 1, Big("+", Big("*", acc, BigOf(base)),
                                               BigOf(ValueOf(t[i]))))
              IN IF Len(t) > 2 /\ \A i \in 3..Len(t) : IsDigitOf(t[i])
                   THEN Whole(Radix(3, <<>>)) ELSE NaN
            Literal(t, literal) ==
              IF literal.next = Len(t) + 1 THEN literal.value ELSE NaN
            Trimmed(t) ==
              IF t = <<>> THEN Num(0)
              ELSE IF Len(t) >= 2 /\ t[1] = "0" /\ t[2] \in {"x", "X", "o", "O", "b", "B"}
                THEN Based(t, IF t[2] \in {"x", "X"} THEN 16
                              ELSE IF t[2] \in {"o", "O"} THEN 8 ELSE 2)
              ELSE Literal(t, DecimalAt(t, 1))
        IN Trimmed(TrimEnd(SubSeq(s, SkipWhite(s, 1), Len(s)))))
  \* The decimal literal of s at position i: an optional sign, then Infinity
  \* or digits with an optional point, fraction and exponent (an exponent
  \* counts only with its digits).  next is the position after the literal,
  \* i when there is none; int and frac are the numbers of digits before and
  \* after the point (frac is -1 without a point).
    [] name = "DecimalAt" ->
      LET s == args[1]  i == args[2]
      IN (
        LET Value(c) == (CHOOSE k \in 1..10 : Digits[k] = c) - 1
            Values(from, count) == [k \in 1..count |-> Value(s[from + k - 1])]
            \* The exponent, at most 100000 either way.
            RECURSIVE Power(_, _)
            Power(from, count) ==
              LET More(high) == IF high >= 10000 THEN 100000
                                ELSE high * 10 + Value(s[from + count - 1])
              IN IF count = 0 THEN 0 ELSE More(Power(from, count - 1))
            Literal(minus, j, int, point, frac, m, sg, exp) ==
              IF j + 7 <= Len(s)
                   /\ SubSeq(s, j, j + 7) = <<"I", "n", "f", "i", "n", "i", "t", "y">>
                THEN [value |-> <<"num", IF minus THEN -1 ELSE 1, 0>>,
                      next |-> j + 8, int |-> 0, frac |-> -1, exp |-> FALSE]
              ELSE IF int = 0 /\ frac = 0
                THEN [value |-> NaN, next |-> i, int |-> 0, frac |-> -1,
                      exp |-> FALSE]
              ELSE [value |-> Decimal(IF minus THEN -1 ELSE 1,
                                      Values(j, int) \o Values(j + int + 1, frac),
                                      int + (IF sg = 1 /\ s[m + 1] = "-"
                                               THEN -Power(m + 1 + sg, exp)
                                               ELSE Power(m + 1 + sg, exp))),
                    next |-> IF exp = 0 THEN m ELSE m + 1 + sg + exp,
                    int |-> int, frac |-> IF point THEN frac ELSE -1,
                    exp |-> exp > 0]
            Exponent(minus, j, int, point, frac, m, sg) ==
              Literal(minus, j, int, point, frac, m, sg,
                      IF m <= Len(s) /\ s[m] \in {"e", "E"}
                        THEN DigitRun(s, m + 1 + sg, 0, 0)[2] ELSE 0)
            Mantissa(minus, j, int, point, frac) ==
              LET m == IF point THEN j + int + 1 + frac ELSE j + int
              IN Exponent(minus, j, int, point, frac, m,
                          IF m + 1 <= Len(s) /\ s[m] \in {"e", "E"}
                               /\ s[m + 1] \in {"+", "-"} THEN 1 ELSE 0)
            Fraction(minus, j, int, point) ==
              Mantissa(minus, j, int, point,
                       IF point THEN DigitRun(s, j + int + 1, 0, 0)[2] ELSE 0)
            Integer(minus, j, int) ==
              Fraction(minus, j, int, j + int <= Len(s) /\ s[j + int] = ".")
            Unsigned(minus, j) == Integer(minus, j, DigitRun(s, j, 0, 0)[2])
            signed == i <= Len(s) /\ s[i] \in {"+", "-"}
        IN Unsigned(signed /\ s[i] = "-", IF signed THEN i + 1 ELSE i))
  \* The number parseFloat reads at the start of s, after leading white space:
  \* <<its value, the characters it takes, white space included>>.
    [] name = "FloatPrefix" ->
      LET s == args[1]
      IN (
        LET From(i, literal) ==
              IF literal.next = i THEN <<NaN, 0>> ELSE <<literal.value, literal.next - 1>>
            Start(i) == From(i, DecimalAt(s, i))
        IN Start(SkipWhite(s, 1)))
  \* x op y on doubles, op one of "*" and "/": the double nearest to the
  \* exact result on the doubles of the operands.  That is the number nearest
  \* to the fraction of the operands' fractions when both operands are doubles
  \* exactly (their denominators are powers of two) or the operand multiplied
  \* or divided by is a power of two; in the other cases the exact result on
  \* the two doubles is rounded (1.1 * 1.1 is 1.2100000000000002).  An operand
  \* whose conversion threw makes the operation throw.
    [] name = "Arith" ->
      LET op == args[1]  x == args[2]  y == args[3]
      IN (
        LET RECURSIVE PowerOfTwo(_)
            PowerOfTwo(k) == k = 1 \/ (k > 1 /\ k % 2 = 0 /\ PowerOfTwo(k \div 2))
            Small(v) == Len(v) = 3 /\ Abs(v[2]) < 32768 /\ v[3] < 32768
            IsDouble(v) == Small(v) /\ PowerOfTwo(v[3])
            IsPowerOfTwo(v) == IsDouble(v) /\ PowerOfTwo(Abs(v[2]))
            Negative(v) == v[2] < 0 \/ v = NegZero
            sign == IF Negative(x) # Negative(y) THEN -1 ELSE 1
            zero == IF sign < 0 THEN NegZero ELSE <<"num", 0, 1>>
            infinity == <<"num", sign, 0>>
            isNaN(v) == Len(v) = 3 /\ v[2] = 0 /\ v[3] = 0
            isZero(v) == Len(v) = 3 /\ v[2] = 0 /\ v[3] # 0
            isInfinite(v) == Len(v) = 3 /\ v[2] # 0 /\ v[3] = 0
            unrounded == (IsDouble(x) /\ IsDouble(y))
                           \/ (Small(x) /\ IsPowerOfTwo(y))
                           \/ (op = "*" /\ IsPowerOfTwo(x) /\ Small(y))
            Two(k) == Big("^", <<2>>, k)
            Product(a, b) ==
              RoundRatio(IF a.e + b.e > 0 THEN Big("*", Big("*", a.m, b.m), Two(a.e + b.e))
                         ELSE Big("*", a.m, b.m),
                         IF a.e + b.e < 0 THEN Two(-(a.e + b.e)) ELSE <<1>>)
            Quotient(a, b) ==
              RoundRatio(IF a.e > b.e THEN Big("*", a.m, Two(a.e - b.e)) ELSE a.m,
                         IF a.e < b.e THEN Big("*", b.m, Two(b.e - a.e)) ELSE b.m)
            Doubles(a, b) ==
              NumberOfDouble(sign, IF op = "*" THEN Product(a, b) ELSE Quotient(a, b))
            finite == IF unrounded
                        THEN (IF op = "*" THEN Rat(x[2] * y[2], x[3] * y[3])
                              ELSE Rat(x[2] * y[3], x[3] * y[2]))
                        ELSE Doubles(DoubleOf(x), DoubleOf(y))
        IN IF x = TypeError \/ y = TypeError THEN TypeError
           ELSE IF isNaN(x) \/ isNaN(y) THEN NaN
           ELSE IF op = "*"
             THEN IF (isInfinite(x) /\ isZero(y)) \/ (isZero(x) /\ isInfinite(y)) THEN NaN
                  ELSE IF isInfinite(x) \/ isInfinite(y) THEN infinity
                  ELSE IF isZero(x) \/ isZero(y) THEN zero
                  ELSE finite
           ELSE IF (isInfinite(x) /\ isInfinite(y)) \/ (isZero(x) /\ isZero(y)) THEN NaN
           ELSE IF isInfinite(x) \/ isZero(y) THEN infinity
           ELSE IF isZero(x) \/ isInfinite(y) THEN zero
           ELSE finite)
  \* The number nearest to n/d; n/0 is NaN or an infinity.  A fraction that is
  \* a short decimal is its own number.
    [] name = "Rat" ->
      LET n == args[1]  d == args[2]
      IN (
        LET \* s/t is a decimal of nine digits at most, nine at most after the
            \* point.
            Places(t) == CHOOSE j \in 0..9 :
                           Pow10(j) % t = 0 /\ (j = 0 \/ Pow10(j - 1) % t # 0)
            Short(s, t) ==
              1000000000 % t = 0 /\ s <= 999999999 \div (Pow10(Places(t)) \div t)
            Lowest(g) == IF Short(Abs(n) \div g, Abs(d) \div g)
                           THEN <<"num", (Sign(d) * n) \div g, Abs(d) \div g>>
                           ELSE NumberOfDouble(Sign(n) * Sign(d),
                                               RoundRatio(BigOf(Abs(n)), BigOf(Abs(d))))
        IN IF d = 0 THEN <<"num", Sign(n), 0>>
           ELSE IF n = 0 THEN <<"num", 0, 1>>
           ELSE Lowest(GCD(Abs(n), Abs(d))))
  \* The number a decimal literal denotes: the double nearest to
  \* sign * 0.d1d2... * 10^n, whatever zeros the digits begin and end with.
    [] name = "Decimal" ->
      LET sign == args[1]  digits == args[2]  n == args[3]
      IN (
        LET RECURSIVE Lead(_)
            Lead(i) == IF i <= Len(digits) /\ digits[i] = 0 THEN Lead(i + 1) ELSE i - 1
            RECURSIVE Last(_)
            Last(i) == IF digits[i] = 0 THEN Last(i - 1) ELSE i
            Zeros(k) == [i \in 1..k |-> 0]
            zero == IF sign < 0 THEN NegZero ELSE <<"num", 0, 1>>
            Reversed(d) == [i \in 1..Len(d) |-> d[Len(d) - i + 1]]
            \* 0.d * 10^x, d without a zero at either end.
            Of(d, x) ==
              IF x > 310 THEN <<"num", sign, 0>>
              ELSE IF x < -330 THEN zero
              ELSE IF Len(d) <= 15 /\ x >= -290 /\ x <= 290 THEN Canonical(sign, d, x)
              ELSE NumberOfDouble(sign,
                     RoundRatio(Zeros(IF x > Len(d) THEN x - Len(d) ELSE 0) \o Reversed(d),
                                Zeros(IF x < Len(d) THEN Len(d) - x ELSE 0) \o <<1>>))
        IN IF Lead(1) = Len(digits) THEN zero
           ELSE Of(SubSeq(digits, Lead(1) + 1, Last(Len(digits))), n - Lead(1)))
  \* The double nearest to N / D, for natural numbers N and D; of two that
  \* are equally near the one with the even significand.  The double is
  \* m * 2^e with 2^52 <= m < 2^53, or with e = -1074 and a smaller m (a
  \* subnormal double, or zero when m is 0); e above 971 stands for infinity.
    [] name = "RoundRatio" ->
      LET N == args[1]  D == args[2]
      IN (
        LET Two(k) == Big("^", <<2>>, k)
            \* N and D with N / D over 2^e for their ratio.
            Over2(e) == <<IF e < 0 THEN Big("*", N, Two(-e)) ELSE N,
                          IF e > 0 THEN Big("*", D, Two(e)) ELSE D>>
            \* At most the exponent of the double, and at most 12 less: N / D is
            \* above 10^x for x the difference of the numbers of digits, less one.
            Guess(x) == ((x * (IF x >= 0 THEN 3321 ELSE 3322)) \div 1000) - 53
            Least(e) == IF e < -1074 THEN -1074 ELSE e
            \* The ratio nd is below 2^k.
            Below(nd, k) == Big("cmp", nd[1], Big("*", nd[2], Two(k))) < 0
            More(nd) == CHOOSE k \in 0..13 : Below(nd, 53 + k) /\ (k = 0 \/ ~Below(nd, 52 + k))
            Exponent(e) == e + More(Over2(e))
            Carried(m, e) == IF m = Two(53) THEN [m |-> Two(52), e |-> e + 1]
                             ELSE [m |-> m, e |-> e]
            \* half is the sign of the remainder less half the divisor.
            Rounded(q, half, e) ==
              IF half > 0 \/ (half = 0 /\ q # <<>> /\ q[1] % 2 = 1)
                THEN Carried(Big("+", q, <<1>>), e)
                ELSE [m |-> q, e |-> e]
            Halved(qr, d, e) == Rounded(qr[1], Big("cmp", Big("+", qr[2], qr[2]), d), e)
            Divided(nd, e) == Halved(Big("/", nd[1], nd[2]), nd[2], e)
            Nearest(e) == IF e > 971 THEN [m |-> <<1>>, e |-> e] ELSE Divided(Over2(e), e)
        IN IF N = <<>> THEN [m |-> <<>>, e |-> -1074]
           ELSE IF D = <<>> THEN [m |-> <<1>>, e |-> 972]
           ELSE Nearest(Exponent(Least(Guess(Len(N) - Len(D) - 1)))))
  \* The shortest decimal that reads back as the double m * 2^e, m not 0
  \* (Number::toString of ECMAScript): <<digits, n>> for 0.d1d2... * 10^n, the
  \* digits without a zero at either end.  A decimal reads back as the double
  \* when it lies between the middles to the two neighbours of the double, or
  \* on a middle when m is even; of the decimals of the least length the one
  \* nearest to the double, of two equally near the even one.  The numbers
  \* are counted in quarters of the last binary place: the double below
  \* 2^52 * 2^e is half as far away as the one above.
    [] name = "Shortest" ->
      LET m == args[1]  e == args[2]
      IN (
        LET quarter == IF e >= 2 THEN Big("^", <<2>>, e - 2) ELSE Big("^", <<5>>, 2 - e)
            point == IF e >= 2 THEN 0 ELSE e - 2
            half == Big("+", quarter, quarter)
            value == Big("*", Big("*", m, <<4>>), quarter)
            above == Big("+", value, half)
            below == Big("-", value, IF m = Big("^", <<2>>, 52) /\ e > -1074
                                       THEN quarter ELSE half)
            Within(order) == order < 0 \/ (order = 0 /\ m[1] % 2 = 0)
            Reads(x) == Within(Big("cmp", below, x)) /\ Within(Big("cmp", x, above))
            L == Len(value)
            Zeros(k) == [i \in 1..k |-> 0]
            \* x without its z low zeros, the highest digit first.
            Digits10(x, z) == <<SubSeq([i \in 1..Len(x) |-> x[Len(x) - i + 1]],
                                       1, Len(x) - z),
                                Len(x) + point>>
            Cut(x) == Digits10(x, CHOOSE z \in 0..Len(x) :
                                    x[z + 1] # 0 /\ \A k \in 1..z : x[k] = 0)
            \* The decimals of p digits next to the value, with w digits of the
            \* value dropped: the nearer one first.
            Nearer(down, up, order, odd) ==
              IF order > 0 \/ (order = 0 /\ odd) THEN <<up, down>> ELSE <<down, up>>
            Dropped(w, down, rest) ==
              Nearer(down, Big("+", down, Zeros(w) \o <<1>>),
                     Big("cmp", Big("+", rest, rest), Zeros(w) \o <<1>>),
                     value[w + 1] % 2 = 1)
            Pair(p) == Dropped(L - p, Zeros(L - p) \o SubSeq(value, L - p + 1, L),
                               Big("+", SubSeq(value, 1, L - p), <<>>))
            Either(pair) == IF Reads(pair[1]) THEN Cut(pair[1])
                            ELSE IF Reads(pair[2]) THEN Cut(pair[2]) ELSE <<>>
            Of(p) == IF p >= L THEN Cut(value) ELSE Either(Pair(p))
            \* The least number of digits that read back: one more digit reads
            \* back as well, and 17 always do.
        IN Of(CHOOSE p \in 1..(IF L < 17 THEN L ELSE 17) :
                Of(p) # <<>> /\ (p = 1 \/ Of(p - 1) = <<>>)))
  \* The number that is the double r (a result of RoundRatio) with a sign.
    [] name = "NumberOfDouble" ->
      LET sign == args[1]  r == args[2]
      IN (
        LET Signed(shortest) == Canonical(sign, shortest[1], shortest[2])
        IN IF r.m = <<>> THEN (IF sign < 0 THEN NegZero ELSE <<"num", 0, 1>>)
           ELSE IF r.e > 971 THEN <<"num", sign, 0>>
           ELSE Signed(Shortest(r.m, r.e)))
  \* The double of a number that is neither zero, NaN nor an infinity (as
  \* RoundRatio gives it).
    [] name = "DoubleOf" ->
      LET v == args[1]
      IN (
        LET Zeros(k) == [i \in 1..k |-> 0]
            Reversed(d) == [i \in 1..Len(d) |-> d[Len(d) - i + 1]]
        IN IF Len(v) = 3 THEN RoundRatio(BigOf(Abs(v[2])), BigOf(v[3]))
           ELSE RoundRatio(Zeros(IF v[4] > Len(v[3]) THEN v[4] - Len(v[3]) ELSE 0)
                             \o Reversed(v[3]),
                           Zeros(IF v[4] < Len(v[3]) THEN Len(v[3]) - v[4] ELSE 0) \o <<1>>))

\* x * y and x / y on numbers.
Times(x, y) == Arith("*", x, y)
Over(x, y) == Arith("/", x, y)

\* parseFloat(s): the leading decimal number of s, NaN when there is none.
ParseFloat(s) == FloatPrefix(s)[1]

\* The truth value of a value in a condition.
Truthy(v) ==
  IF v[1] = "bool" THEN v[2]
  ELSE IF v[1] = "num" THEN v[2] # 0 /\ v # NaN
  ELSE IF v[1] = "str" THEN v[2] # <<>>
  ELSE v \notin {Undefined, Null}

\* The value without its identity.
Content(v) == IF v[1] \in {"arr", "obj"} THEN <<v[1], v[2]>> ELSE v

\* a === b: NaN equals nothing, the two zeros are equal; an array or an
\* object equals itself only, whatever it holds: two delivered values are
\* the same one when they have the same identity, and a delivered value is
\* never one the script wrote.
StrictEquals(a, b) ==
  IF a[1] = "num" /\ b[1] = "num"
    THEN a # NaN /\ (a = b \/ (a[2] = 0 /\ b[2] = 0 /\ b # NaN))
  ELSE IF a[1] \in {"arr", "obj"} /\ a[1] = b[1] /\ Len(a) = 3 /\ Len(b) = 3
    THEN a[3] = b[3]
  ELSE a[1] = b[1] /\ a = b

\* The string a sequence of characters spells (a property name).  A
\* backslash is doubled, which keeps the name of one character written
\* \uXXXX apart from the name of the six characters that spell it.
RECURSIVE Join(_)
Join(s) ==
  IF s = <<>> THEN ""
  ELSE (IF Head(s) = "\\" THEN "\\\\" ELSE Head(s)) \o Join(Tail(s))

\* a ?? b
Nullish(a, b) == IF a = Undefined \/ a = Null THEN b ELSE a

\* The keys of the store the model uses: FlagKey, and OtherKey, a second flag
\* of the same project, whose name is one Object.prototype defines.
FlagKey == "k"
OtherKey == "constructor"
Keys == {FlagKey, OtherKey}

\* The store has no property of its own under the key.
Absent == <<"absent">>

\* What an object written as a literal ({}) inherits from Object.prototype
\* under a name: a built-in function, the prototype object under __proto__,
\* nothing under any other name.
Inherited(key) ==
  IF key \in {"constructor", "toString", "toLocaleString", "valueOf",
              "hasOwnProperty", "isPrototypeOf", "propertyIsEnumerable",
              "__defineGetter__", "__defineSetter__", "__lookupGetter__",
              "__lookupSetter__"}
    THEN <<"builtin", key>>
  ELSE IF key = "__proto__" THEN <<"object", "Object.prototype">>
  ELSE Undefined

\* store[key] of the store (const flags = {}): its own property, else the
\* one it inherits.
Stored(store, key) == IF store[key] = Absent THEN Inherited(key) ELSE store[key]

\* The query windows (cycle numbers).
Windows == {0, 1}

\* flags[key] ?? defaultValue
ReadFlag(key, defaultValue) == Nullish(Stored(flags, key), defaultValue)

---------------------------------------------------------------------------
(* The pattern engine, at its interface                                    *)

\* A timed event (hap): the span [b/d, e/d) and a payload.
Hap(b, e, d, value) == [b |-> b, e |-> e, d |-> d, value |-> value]

\* pure(value).query(state) over the cycle w: one event holding value.
PureQuery(value, w) == <<Hap(w, w + 1, 1, value)>>

MiniChars == {"<", ">", "[", "]", "*", "!", "@", ","}

\* Every string is taken for embedded pattern syntax.
hasMiniNotationAnyString(value) == IsString(value)

\* hasMiniNotation: a string with at least one of the characters < > [ ] * ! @ ,
hasMiniNotation(value) ==
  IF ~IsString(value) THEN FALSE
  ELSE \E i \in 1..Len(value[2]) : value[2][i] \in MiniChars

\* The patterns of the engine the model builds: <<"pure", value>>,
\* <<"silence">>, <<"fast", factor, pattern>>, <<"stack", patterns>>,
\* <<"cat", patterns>> and <<"timecat", steps>>, each step
\* <<weight, pattern>>.  Times, factors and weights are fractions <<n, d>>.
\*
\* The events of a pattern within the span from qb to qe, each with its
\* whole (wb, we) and the part of it within the span (pb, pe):
\*   pure       one event per cycle the span touches;
\*   fast       the events of the pattern over the span multiplied by the
\*              factor, their times divided by it;
\*   stack      the events of each pattern in turn;
\*   cat        one pattern per cycle, in turn, each going on from where
\*              it was left;
\*   timecat    every cycle of a step's pattern is squeezed into the
\*              share of the cycle its weight gives the step.
RECURSIVE Query(_, _, _)
Query(pat, qb, qe) ==
  LET Q(n, d) == LET Reduced(g) == <<(Sign(d) * n) \div g, Abs(d) \div g>>
                 IN Reduced(GCD(Abs(n), Abs(d)))
      Add(x, y) == Q(x[1] * y[2] + y[1] * x[2], x[2] * y[2])
      Sub(x, y) == Q(x[1] * y[2] - y[1] * x[2], x[2] * y[2])
      Mul(x, y) == Q(x[1] * y[1], x[2] * y[2])
      Div(x, y) == Q(x[1] * y[2], x[2] * y[1])
      Less(x, y) == x[1] * y[2] < y[1] * x[2]
      Min(x, y) == IF Less(y, x) THEN y ELSE x
      Max(x, y) == IF Less(x, y) THEN y ELSE x
      Floor(x) == x[1] \div x[2]
      Ceiling(x) == -((-x[1]) \div x[2])
      \* The cycles a span touches, first to last.
      Cycles(b, e) == [i \in 1..(Ceiling(e) - Floor(b)) |-> Floor(b) + i - 1]
      \* The events with every time moved: multiplied by m, then t added.
      Moved(events, m, t) ==
        [n \in DOMAIN events |->
           [wb |-> Add(Mul(events[n].wb, m), t), we |-> Add(Mul(events[n].we, m), t),
            pb |-> Add(Mul(events[n].pb, m), t), pe |-> Add(Mul(events[n].pe, m), t),
            value |-> events[n].value]]
      Pure(cycles) ==
        [i \in DOMAIN cycles |->
           [wb |-> <<cycles[i], 1>>, we |-> <<cycles[i] + 1, 1>>,
            pb |-> Max(qb, <<cycles[i], 1>>), pe |-> Min(qe, <<cycles[i] + 1, 1>>),
            value |-> pat[2]]]
      RECURSIVE Stacked(_)
      Stacked(i) == IF i > Len(pat[2]) THEN <<>>
                    ELSE Query(pat[2][i], qb, qe) \o Stacked(i + 1)
      \* The pattern of a cat in the cycle c of the span.
      Turn(c, offset) ==
        Moved(Query(pat[2][(c % Len(pat[2])) + 1],
                    Sub(Max(qb, <<c, 1>>), offset), Sub(Min(qe, <<c + 1, 1>>), offset)),
              <<1, 1>>, offset)
      RECURSIVE Turns(_, _)
      Turns(k, cycles) ==
        IF k > Len(cycles) THEN <<>>
        ELSE Turn(cycles[k], <<cycles[k] - (cycles[k] \div Len(pat[2])), 1>>)
               \o Turns(k + 1, cycles)
      RECURSIVE Weight(_)
      Weight(i) == IF i = 0 THEN <<0, 1>> ELSE Add(Weight(i - 1), pat[2][i][1])
      \* Step i of a timecat over the cycle c of the span moved back by
      \* the step's begin.
      Squeezed(i, c, begin, factor) ==
        LET Placed(h, pb, pe) ==
              [wb |-> Add(begin, Sub(pb, Div(Sub(h.pb, h.wb), factor))),
               we |-> Add(begin, Add(pe, Div(Sub(h.we, h.pe), factor))),
               pb |-> Add(begin, pb), pe |-> Add(begin, pe), value |-> h.value]
            Within(h, cycle) ==
              Placed(h, Add(cycle, Min(Div(Sub(h.pb, cycle), factor), <<1, 1>>)),
                        Add(cycle, Min(Div(Sub(h.pe, cycle), factor), <<1, 1>>)))
            Outs(inner) ==
              [k \in DOMAIN inner |-> Within(inner[k], <<Floor(inner[k].pb), 1>>)]
            Inner(bpos, epos) ==
              IF ~Less(bpos, <<1, 1>>) THEN <<>>
              ELSE Outs(Query(pat[2][i][2], Add(<<c, 1>>, bpos), Add(<<c, 1>>, epos)))
            Clipped(from, to) ==
              IF ~Less(from, to) THEN <<>>
              ELSE Inner(Min(Mul(Sub(from, <<c, 1>>), factor), <<1, 1>>),
                         Min(Mul(Sub(to, <<c, 1>>), factor), <<1, 1>>))
        IN Clipped(Max(Sub(qb, begin), <<c, 1>>), Min(Sub(qe, begin), <<c + 1, 1>>))
      RECURSIVE Step(_, _, _, _, _)
      Step(i, k, begin, factor, cycles) ==
        IF k > Len(cycles) THEN <<>>
        ELSE Squeezed(i, cycles[k], begin, factor)
               \o Step(i, k + 1, begin, factor, cycles)
      Started(i, begin, factor) ==
        Step(i, 1, begin, factor, Cycles(Sub(qb, begin), Sub(qe, begin)))
      RECURSIVE Steps(_, _)
      Steps(i, total) ==
        IF i > Len(pat[2]) THEN <<>>
        ELSE Started(i, Div(Weight(i - 1), total), Div(total, pat[2][i][1]))
               \o Steps(i + 1, total)
  IN IF pat[1] = "pure" THEN Pure(Cycles(qb, qe))
     ELSE IF pat[1] = "fast"
       THEN Moved(Query(pat[3], Mul(qb, pat[2]), Mul(qe, pat[2])),
                  <<pat[2][2], pat[2][1]>>, <<0, 1>>)
     ELSE IF pat[1] = "stack" THEN Stacked(1)
     ELSE IF pat[1] = "cat" THEN Turns(1, Cycles(qb, qe))
     ELSE IF pat[1] = "timecat" THEN Steps(1, Weight(Len(pat[2])))
     ELSE <<>>

\* mini(value): the pattern a string of the mini-notation is parsed to,
\* <<"error">> when the parser throws.  The model reads the notation of
\* the flag values the documents of the repository give: words (a number
\* when the word spells one, ~ and - for a rest), [ ] for a sequence within
\* a step, < > for one step per cycle, a comma for patterns side by side,
\* and after a step *n (faster), /n (slower), @n (weight) and !n or !
\* (repeated), n a number of nine digits at most.
Mini(s) ==
  LET \* number[j][e] is the number the word from j up to e spells, decimal[k]
      \* the number literal at k.
      Parsed(number, decimal) ==
        LET WordChars == {Ascii[k] : k \in (34..59) \cup (66..91)}
                           \cup {Digits[k] : k \in 1..10}
                           \cup {"~", "-", "#", ".", "^", "_", ":"}
            error == [ok |-> FALSE]
            \* The blanks between the steps of the notation.
            RECURSIVE Blank(_)
            Blank(i) == IF i <= Len(s) /\ s[i] \in {" ", "\t", "\n", "\r", "\f"}
                          THEN Blank(i + 1) ELSE i
            Frac(v) == <<v[2], v[3]>>
            Faster(k, pat) == IF k[1] <= 0 \/ k[2] <= 0 THEN <<"silence">>
                              ELSE <<"fast", k, pat>>
            RECURSIVE Sum(_)
            Sum(steps) ==
              LET Lowest(n, d, g) == <<n \div g, d \div g>>
                  Fraction(n, d) == Lowest(n, d, GCD(n, d))
                  Plus(x, y) == Fraction(x[1] * y[2] + y[1] * x[2], x[2] * y[2])
              IN IF steps = <<>> THEN <<0, 1>> ELSE Plus(Head(steps)[1], Sum(Tail(steps)))
            \* sequence(...) of steps without weights, timeCat(...) otherwise.
            Sequence(steps) ==
              IF Len(steps) = 1 THEN steps[1][2]
              ELSE IF \A n \in DOMAIN steps : steps[n][1] = <<1, 1>>
                THEN <<"fast", <<Len(steps), 1>>,
                       <<"cat", [n \in DOMAIN steps |-> steps[n][2]]>>>>
              ELSE <<"timecat", steps>>
            \* One pattern of a group: the sequence of its steps within [ ] and at
            \* the top, the sequence slowed down by the sum of its weights within < >.
            Slowed(total, pat) == Faster(<<total[2], total[1]>>, pat)
            Group(open, steps) ==
              IF open = "<" THEN Slowed(Sum(steps), Sequence(steps)) ELSE Sequence(steps)
            Stack(open, seqs) ==
              IF Len(seqs) = 1 THEN Group(open, seqs[1])
              ELSE <<"stack", [n \in DOMAIN seqs |-> Group(open, seqs[n])]>>
            RECURSIVE WordEnd(_)
            WordEnd(i) == IF i <= Len(s) /\ s[i] \in WordChars THEN WordEnd(i + 1) ELSE i
            Valued(word, n) == IF n # NaN THEN <<"pure", n>> ELSE <<"pure", Str(word)>>
            Atom(word, n) == IF word \in {<<"~">>, <<"-">>} THEN <<"silence">>
                             ELSE Valued(word, n)
            RECURSIVE Copies(_, _)
            Copies(n, step) == IF n <= 0 THEN <<>> ELSE <<step>> \o Copies(n - 1, step)
            \* The operators after a step: [ok, pat, weight, copies, next].
            RECURSIVE ParseOps(_, _)
            ParseOps(i, st) ==
              LET Changed(j, arg) ==
                    IF s[j] = "*" THEN [st EXCEPT !.pat = Faster(Frac(arg.value), @)]
                    ELSE IF s[j] = "/"
                      THEN [st EXCEPT !.pat = Faster(<<arg.value[3], arg.value[2]>>, @)]
                    ELSE [st EXCEPT !.weight = Frac(arg.value)]
                  Argument(j, k, arg) ==
                    IF arg.next = k \/ Len(arg.value) = 4 \/ arg.value[3] = 0 THEN error
                    ELSE IF s[j] = "@" /\ arg.value[2] <= 0 THEN error
                    ELSE ParseOps(arg.next, Changed(j, arg))
                  Repeated(j, count) ==
                    ParseOps(j + 1 + count[2],
                      [st EXCEPT !.copies = IF count[2] = 0 THEN @ + 1 ELSE count[1]])
                  Spaced(j, k) == Argument(j, k, decimal[k])
                  Operator(j) ==
                    IF j > Len(s) \/ s[j] \notin {"*", "/", "@", "!"}
                      THEN [st EXCEPT !.next = j]
                    ELSE IF s[j] = "!" THEN Repeated(j, DigitRun(s, j + 1, 0, 0))
                    ELSE Spaced(j, Blank(j + 1))
              IN Operator(Blank(i))
            \* The patterns between brackets, separated by commas, up to the
            \* closing bracket (none at the top): [ok, seqs, next], every
            \* sequence the list of its steps.
            RECURSIVE ParseStack(_, _, _)
            RECURSIVE ParseSeq(_, _, _)
            ParseSeq(i, close, acc) ==
              LET Fresh(pat) == [ok |-> TRUE, pat |-> pat, weight |-> <<1, 1>>,
                                 copies |-> 1, next |-> 0]
                  Grouped(j, inner) ==
                    IF inner.ok THEN [ok |-> TRUE, pat |-> Stack(s[j], inner.seqs),
                                      next |-> inner.next]
                    ELSE error
                  Worded(j, end) ==
                    [ok |-> TRUE, pat |-> Atom(SubSeq(s, j, end - 1), number[j][end]),
                     next |-> end]
                  Opened(j) ==
                    IF s[j] \in {"[", "<"}
                      THEN Grouped(j, ParseStack(j + 1, IF s[j] = "[" THEN "]" ELSE ">", <<>>))
                    ELSE IF s[j] \in WordChars THEN Worded(j, WordEnd(j))
                    ELSE error
                  Operated(opened) ==
                    IF opened.ok THEN ParseOps(opened.next, Fresh(opened.pat)) ELSE error
                  Continued(step) ==
                    IF ~step.ok THEN error
                    ELSE ParseSeq(step.next, close,
                                  acc \o Copies(step.copies, <<step.weight, step.pat>>))
                  From(j) ==
                    IF j > Len(s) \/ s[j] = "," \/ s[j] = close
                      THEN IF acc = <<>> \/ (j > Len(s) /\ close # "") THEN error
                           ELSE [ok |-> TRUE, steps |-> acc, next |-> j]
                    ELSE Continued(Operated(Opened(j)))
              IN From(Blank(i))
            ParseStack(i, close, acc) ==
              LET Listed(seq) ==
                    IF ~seq.ok THEN error
                    ELSE IF seq.next <= Len(s) /\ s[seq.next] = ","
                      THEN ParseStack(seq.next + 1, close, Append(acc, seq.steps))
                    ELSE [ok |-> TRUE, seqs |-> Append(acc, seq.steps),
                          next |-> seq.next + 1]
              IN Listed(ParseSeq(i, close, <<>>))
            Top(top) == IF top.ok THEN Stack("", top.seqs) ELSE <<"error">>
        IN Top(ParseStack(1, "", <<>>))
  IN Parsed([j \in 1..Len(s) |->
               [e \in (j + 1)..(Len(s) + 1) |-> NumberOfString(SubSeq(s, j, e - 1))]],
            [k \in 1..(Len(s) + 1) |-> DecimalAt(s, k)])

\* mini(value) throws a parse error.
MiniThrows(s) == Mini(s) = <<"error">>

\* query of a parsed pattern over the cycle w: its events, the times of
\* each over one denominator.  An event that is cut by the cycle carries
\* its part (pb to pe) beside its whole.
MiniQuery(p, w) ==
  LET Lcm(a, b) == (a * b) \div GCD(a, b)
      Timed(h, d) ==
        IF h.pb = h.wb /\ h.pe = h.we
          THEN Hap(h.wb[1] * (d \div h.wb[2]), h.we[1] * (d \div h.we[2]), d, h.value)
          ELSE [b |-> h.wb[1] * (d \div h.wb[2]), e |-> h.we[1] * (d \div h.we[2]),
                d |-> d, value |-> h.value,
                pb |-> h.pb[1] * (d \div h.pb[2]), pe |-> h.pe[1] * (d \div h.pe[2])]
      Events(events) ==
        [i \in DOMAIN events |->
           Timed(events[i], Lcm(Lcm(events[i].wb[2], events[i].we[2]),
                               Lcm(events[i].pb[2], events[i].pe[2])))]
  IN Events(Query(p, <<w, 1>>, <<w + 1, 1>>))

---------------------------------------------------------------------------
(* An observation log keeps the most recent n queries.                     *)

Keep(log, n) == IF Len(log) > n THEN Tail(log) ELSE log

\* The callbacks are awaited one by one.
IdleAlways == TRUE

\* No query is in progress.  this.withHap(...) maps its callback over the
\* events of the base pattern in one synchronous run, and the event loop
\* gives a provider callback or another call of the script its turn only
\* when the running one has returned.
Idle == running = <<>>

---------------------------------------------------------------------------
(* Flag Store                                                              *)

\* The marks of a bridge instance: first (it has not been queried yet), any
\* (the store was written since its last query), key (such a write changed
\* the value the instance reads, flags[key] ?? default).
New == [first |-> TRUE, any |-> FALSE, key |-> FALSE]
Clean == [first |-> FALSE, any |-> FALSE, key |-> FALSE]

\* The default value of bridge instance b.
BridgeDefault(b) == IF b[1] = "flag" THEN flagDefault ELSE defaultVariation

\* What a store write from old to new leaves in the marks.
Touch(old, new) ==
  [b \in DOMAIN dirty |->
     [first |-> dirty[b].first, any |-> TRUE,
      key |-> dirty[b].key
                \/ Nullish(Stored(old, FlagKey), BridgeDefault(b))
                     # Nullish(Stored(new, FlagKey), BridgeDefault(b))]]

\* The store is replaced by the mapping written.
AssignReplacing(store, settings) ==
  [k \in Keys |-> IF k \in DOMAIN settings THEN settings[k] ELSE Absent]

\* A key that has a value keeps it.
AssignOnce(store, settings) ==
  [k \in Keys |-> IF k \in DOMAIN settings /\ store[k] = Absent
                    THEN settings[k] ELSE store[k]]

\* Object.assign(flags, settings) / flags[key] = settings[key].current for
\* every key of settings.
Assign(store, settings) ==
  [k \in Keys |-> IF k \in DOMAIN settings THEN settings[k] ELSE store[k]]

\* The values of a snapshot or a notification as the provider delivers
\* them: every array and object is a new one, with an identity that no array
\* or object has which the store (under the other keys) or a cache still
\* refers to.
Delivered(settings) ==
  LET Ids(v) == IF v[1] \in {"arr", "obj"} /\ Len(v) = 3 THEN {v[3]} ELSE {}
      live == UNION ({ Ids(flags[k]) : k \in Keys \ DOMAIN settings }
                       \cup { Ids(leadCache[i].cachedVariationKey) :
                                i \in DOMAIN leadCache }
                       \cup { Ids(flagCache[i].cachedValue) : i \in DOMAIN flagCache })
      Unused(n) == CHOOSE id \in 1..(Cardinality(live) + n) :
                  id \notin live /\ Cardinality((1..id) \ live) = n
      Rank(k) == IF k = OtherKey /\ FlagKey \in DOMAIN settings
                      /\ settings[FlagKey][1] \in {"arr", "obj"}
                   THEN 2 ELSE 1
  IN [k \in DOMAIN settings |->
        IF settings[k][1] \in {"arr", "obj"}
          THEN <<settings[k][1], settings[k][2], Unused(Rank(k))>>
          ELSE settings[k]]

\* The mappings a snapshot or a notification can carry: a served value for
\* FlagKey, for OtherKey, or for both.
Settings ==
  { [k \in {FlagKey} |-> v] : v \in served[FlagKey] }
    \cup { [k \in {OtherKey} |-> v] : v \in served[OtherKey] }
    \cup { [k \in Keys |-> IF k = FlagKey THEN p[1] ELSE p[2]] :
             p \in served[FlagKey] \X served[OtherKey] }

\* The handler initLaunchDarkly registers for 'change', and the one setcpmFlag
\* registers for a flag key (its listener keeps the arguments of that call).
StoreHandler == [kind |-> "store", key |-> "", defaultValue |-> Undefined,
                 divisor |-> Undefined]
TempoHandler(flagKey, defaultValue, divisor) ==
  [kind |-> "tempo", key |-> flagKey, defaultValue |-> defaultValue,
   divisor |-> divisor]

\* The value read is not divided.
GetValueUndivided(store, flagKey, defaultValue, divisor) ==
  LET value == Nullish(Stored(store, flagKey), defaultValue)
  IN ToNumber(IF IsString(value) THEN ParseFloat(value[2]) ELSE value)

\* getValue() of setcpmFlag, reading the store given.
GetValue(store, flagKey, defaultValue, divisor) ==
  LET value == Nullish(Stored(store, flagKey), defaultValue)
  IN Over(ToNumber(IF IsString(value) THEN ParseFloat(value[2]) ELSE value),
          ToNumber(divisor))

\* applyTempo(): the tempo after the call, value being what getValue() gave;
\* nothing is set when getValue() threw or setcpm is not available.
ApplyTempo(old, value) == IF value = TypeError \/ ~hasSetcpm THEN old ELSE value

\* A tempo listener that computes with the arguments of the latest
\* setcpmFlag call.
RunHandlerLatestArgs(h, settings, st) ==
  LET Applied(value) ==
        [st EXCEPT !.cpm = ApplyTempo(st.cpm, value), !.threw = value = TypeError,
                   !.ran = Append(@, [key |-> h.key, value |-> value])]
  IN IF h.kind = "store"
       THEN [st EXCEPT !.flags = Assign(st.flags, settings)]
     ELSE IF h.key \in DOMAIN settings \/ Truthy(Inherited(h.key))
       THEN Applied(IF tempoLog = <<>>
                      THEN GetValue(st.flags, h.key, h.defaultValue, h.divisor)
                      ELSE GetValue(st.flags, h.key,
                                    tempoLog[Len(tempoLog)].defaultValue,
                                    tempoLog[Len(tempoLog)].divisor))
     ELSE st

\* One change handler run on a notification: the store, the tempo, whether
\* the handler threw and what the listeners run so far computed.  A listener
\* of setcpmFlag runs when settings[flagKey] is truthy, which it is for a key
\* of the notification (an object with current and previous) and for a name
\* settings, an object, inherits a function under; it applies what its
\* getValue() gives.
RunHandler(h, settings, st) ==
  LET Applied(value) ==
        [st EXCEPT !.cpm = ApplyTempo(st.cpm, value), !.threw = value = TypeError,
                   !.ran = Append(@, [key |-> h.key, value |-> value])]
  IN IF h.kind = "store"
       THEN [st EXCEPT !.flags = Assign(st.flags, settings)]
     ELSE IF h.key \in DOMAIN settings \/ Truthy(Inherited(h.key))
       THEN Applied(GetValue(st.flags, h.key, h.defaultValue, h.divisor))
     ELSE st

\* The handlers run in the reverse of registration order.
RECURSIVE DispatchReversed(_, _, _)
DispatchReversed(settings, n, st) ==
  IF n > Len(changeHandlers) \/ st.threw THEN st
  ELSE DispatchReversed(settings, n + 1,
         RunHandler(changeHandlers[Len(changeHandlers) - n + 1], settings, st))

\* The provider emits 'change': the handlers run in registration order, up
\* to one that throws.
RECURSIVE Dispatch(_, _, _)
Dispatch(settings, n, st) ==
  IF n > Len(changeHandlers) \/ st.threw THEN st
  ELSE Dispatch(settings, n + 1, RunHandler(changeHandlers[n], settings, st))

\* Every call creates a client and registers the handlers.
InitLaunchDarklyAgain ==
  /\ Idle
  /\ ldClient' = TRUE
  /\ provider' = "connecting"
  /\ promise' = "pending"
  /\ changeHandlers' = Append(changeHandlers, StoreHandler)
  /\ UNCHANGED <<flags, carried, served, flagVars, leadVars, tempoVars,
                 bridgeVars, dirty>>

\* initLaunchDarkly(clientId): a second call returns at once, its promise
\* resolved; the first one creates the client, registers the ready, change
\* and failed handlers and returns a pending promise.
InitLaunchDarkly ==
  /\ Idle
  /\ ldClient' = TRUE
  /\ provider' = IF ldClient THEN provider ELSE "connecting"
  /\ promise' = IF ldClient THEN "resolved" ELSE "pending"
  /\ changeHandlers' = IF ldClient THEN changeHandlers
                       ELSE Append(changeHandlers, StoreHandler)
  /\ UNCHANGED <<flags, carried, served, flagVars, leadVars, tempoVars, bridgeVars, dirty>>

\* The promise after resolve() or reject(): only a pending one settles.
Settle(p, outcome) == IF p = "pending" THEN outcome ELSE p

\* ldClient.on('ready'): the initial snapshot is merged into the store and
\* the first call's promise resolves.
Ready ==
  /\ Idle
  /\ ldClient /\ provider = "connecting"
  /\ \E snapshot \in Settings \cup {<<>>} :
       /\ flags' = Assign(flags, Delivered(snapshot))
       /\ carried' = [k \in Keys |-> IF k \in DOMAIN snapshot
                                       THEN Delivered(snapshot)[k]
                                     ELSE carried[k]]
       /\ dirty' = Touch(flags, flags')
  /\ provider' = "ready"
  /\ promise' = Settle(promise, "resolved")
  /\ UNCHANGED <<served, ldClient, changeHandlers, flagVars, leadVars, tempoVars,
                 bridgeVars>>

\* ldClient.on('failed'): the error is logged and the first call's promise
\* rejects; the store is left as it was.
Failed ==
  /\ Idle
  /\ ldClient /\ provider = "connecting"
  /\ provider' = "failed"
  /\ promise' = Settle(promise, "rejected")
  /\ UNCHANGED <<flags, carried, served, ldClient, changeHandlers, flagVars, leadVars,
                 tempoVars, bridgeVars, dirty>>

\* ldClient.on('change'): every key of the notification is overwritten,
\* whatever value it carries, and the tempo listeners run.
Change ==
  /\ Idle
  /\ ldClient /\ provider = "ready"
  /\ \E settings \in Settings :
       /\ LET Left(done) ==
                flags' = done.flags /\ cpm' = done.cpm /\ notified' = done.ran
          IN Left(Dispatch(Delivered(settings), 1,
                           [flags |-> flags, cpm |-> cpm, threw |-> FALSE,
                            ran |-> <<>>]))
       /\ carried' = [k \in Keys |-> IF k \in DOMAIN settings
                                       THEN Delivered(settings)[k]
                                     ELSE carried[k]]
       /\ dirty' = Touch(flags, flags')
  /\ UNCHANGED <<served, ldClient, provider, promise, changeHandlers, flagVars,
                 leadVars, tempoListeners, hasSetcpm, tempoLog, bridgeVars>>

---------------------------------------------------------------------------
(* Scalar Bridge: flag(key, defaultValue)                                  *)

NoCache == [cachedValue |-> Null, cachedPattern |-> Null]

\* The parser is reached on every value that has mini-notation.
FlagParsesAlways(value, cache) == hasMiniNotation(value)

\* The parser is reached when the value has mini-notation and is not the
\* cached string.
FlagParses(value, cache) ==
  hasMiniNotation(value) /\ ~StrictEquals(value, cache.cachedValue)

\* The cached string is replaced even when the parse fails.
FlagCacheAfterPoisoned(value, cache) ==
  LET After(parsed) ==
        [cachedValue |-> value,
         cachedPattern |-> IF parsed = <<"error">> THEN cache.cachedPattern
                           ELSE parsed]
  IN IF FlagParses(value, cache) THEN After(Mini(value[2])) ELSE cache

\* After a successful parse the string is cached; the pattern is cached
\* only when none was.
FlagCacheAfterStale(value, cache) ==
  LET After(parsed) ==
        IF parsed = <<"error">> THEN cache
        ELSE [cachedValue |-> value,
              cachedPattern |-> IF cache.cachedPattern = Null THEN parsed
                                ELSE cache.cachedPattern]
  IN IF FlagParses(value, cache) THEN After(Mini(value[2])) ELSE cache

\* The cache pair a query leaves: replaced after a successful parse only.
FlagCacheAfter(value, cache) ==
  LET After(parsed) ==
        IF parsed = <<"error">> THEN cache
        ELSE [cachedValue |-> value, cachedPattern |-> parsed]
  IN IF FlagParses(value, cache) THEN After(Mini(value[2])) ELSE cache

\* The events a query returns.
FlagEvents(value, cache, w) ==
  IF hasMiniNotation(value)
    THEN IF FlagParses(value, cache) /\ MiniThrows(value[2])
           THEN PureQuery(value, w)
           ELSE MiniQuery(FlagCacheAfter(value, cache).cachedPattern, w)
    ELSE PureQuery(value, w)

\* A query of flag() whose cache pair is one pair for all instances.
FlagQueryShared(i, w) ==
  /\ Idle
  /\ i \in DOMAIN flagCache
  /\ LET value == ReadFlag(FlagKey, flagDefault)
         cache == flagCache[i]
     IN /\ flagCache' = [j \in DOMAIN flagCache |-> FlagCacheAfter(value, cache)]
        /\ flagLog' = Keep(Append(flagLog,
             [inst |-> i, value |-> value, first |-> dirty[<<"flag", i>>].first,
              parsed |-> FlagParses(value, cache),
              before |-> cache, after |-> flagCache'[i]]), 2)
  /\ dirty' = [dirty EXCEPT ![<<"flag", i>>] = Clean]
  /\ UNCHANGED <<flags, carried, served, ldClient, provider, promise,
                 changeHandlers, flagDefault, leadVars, tempoVars, bridgeVars>>

\* A query that stores the value it resolved under the key.
FlagQueryStoring(i, w) ==
  /\ Idle
  /\ i \in DOMAIN flagCache
  /\ flags' = [flags EXCEPT ![FlagKey] = ReadFlag(FlagKey, flagDefault)]
  /\ UNCHANGED <<carried, served, ldClient, provider, promise, changeHandlers,
                 flagVars, leadVars, tempoVars, bridgeVars, dirty>>

\* One query of the pattern returned by flag(), instance i, window w.
FlagQuery(i, w) ==
  /\ Idle
  /\ i \in DOMAIN flagCache
  /\ LET value == ReadFlag(FlagKey, flagDefault)
         cache == flagCache[i]
     IN /\ flagCache' = [flagCache EXCEPT ![i] = FlagCacheAfter(value, cache)]
        /\ flagLog' = Keep(Append(flagLog,
             [inst |-> i, win |-> w, value |-> value,
              absent |-> flags[FlagKey] = Absent,
              first |-> dirty[<<"flag", i>>].first,
              mutated |-> dirty[<<"flag", i>>].any,
              changed |-> dirty[<<"flag", i>>].key,
              parsed |-> FlagParses(value, cache),
              failed |-> FlagParses(value, cache) /\ MiniThrows(value[2]),
              before |-> cache, after |-> flagCache'[i],
              threw |-> FALSE,
              out |-> FlagEvents(value, cache, w)]), 2)
  /\ dirty' = [dirty EXCEPT ![<<"flag", i>>] = Clean]
  /\ UNCHANGED <<flags, carried, served, ldClient, provider, promise, changeHandlers,
                 flagDefault, leadVars, tempoVars, bridgeVars>>

---------------------------------------------------------------------------
(* Cached Variant Selector: getLeadArrangement(flagKey, defaultVariation,  *)
(* variations)                                                             *)

\* Registry entries: a factory function (which may throw when called), a
\* pattern value, or any other value (null and 0 among them).  A pattern instance is
\* <<"pattern", variant, id>>; every factory call makes an instance of its
\* own.
Factory(name) == <<"function", name, FALSE>>
ThrowingFactory(name) == <<"function", name, TRUE>>
Pattern(name, id) == <<"pattern", name, id>>

\* pattern.query(state) of a variant's pattern over the cycle w.
PatternQuery(p, w) == <<Hap(w, w + 1, 1, p[2])>>

\* The identities of the pattern instances still referred to.
LiveIds ==
  { leadCache[i].cachedPattern[3] :
      i \in { j \in DOMAIN leadCache : leadCache[j].cachedPattern[1] = "pattern" } }
  \cup { leadLog[n].after.cachedPattern[3] :
      n \in { m \in DOMAIN leadLog : leadLog[m].after.cachedPattern[1] = "pattern" } }
  \cup { leadLog[n].before.cachedPattern[3] :
      n \in { m \in DOMAIN leadLog : leadLog[m].before.cachedPattern[1] = "pattern" } }

\* The identity of a newly built instance: one no live instance has.
FreshId == CHOOSE n \in 1..(Cardinality(LiveIds) + 1) :
             n \notin LiveIds /\ \A m \in 1..(n - 1) : m \in LiveIds

\* variations[name]: the name is converted to a string, which throws
\* TypeError for a name that has no string; the registry's own
\* entry, or what a registry written as an object literal inherits from
\* Object.prototype under that name.
Variation(name) ==
  LET Property(key) == IF key = TypeError THEN TypeError
                       ELSE IF Str(key) \in DOMAIN variations
                         THEN variations[Str(key)]
                       ELSE Inherited(Join(key))
  IN Property(StringOf(name))

\* variations[variationKey] ?? variations[defaultVariation]
PatternFactory(variationKey) ==
  Nullish(Variation(variationKey), Variation(defaultVariation))

\* The name under which the entry PatternFactory(name) is found; TypeError
\* when the lookup throws.
ResolvedName(name) ==
  LET Named(string) == IF string = TypeError THEN TypeError ELSE Str(string)
  IN Named(StringOf(IF Variation(name) \in {Undefined, Null} THEN defaultVariation
                    ELSE name))

\* Every query rebuilds.
LeadRebuildsAlways(variationKey, cache) == TRUE

\* A query rebuilds only while nothing has been built.
LeadRebuildsOnce(variationKey, cache) == cache.cachedVariationKey = Null

\* variationKey !== cachedVariationKey
LeadRebuilds(variationKey, cache) ==
  ~StrictEquals(variationKey, cache.cachedVariationKey)

\* The factory is called, patternFactory being the entry found (line 443):
\* it is truthy, the key is not the cached one and the entry is a function.
LeadCalls(patternFactory, variationKey, cache) ==
  /\ Truthy(patternFactory)
  /\ LeadRebuilds(variationKey, cache)
  /\ patternFactory[1] \in {"function", "builtin"}

\* The factory call throws: a factory that does, or a built-in function
\* that needs a receiver (the call patternFactory() gives it none).
LeadFactoryThrows(patternFactory, variationKey, cache) ==
  /\ LeadCalls(patternFactory, variationKey, cache)
  /\ IF patternFactory[1] = "function" THEN patternFactory[3]
     ELSE patternFactory[2] \notin {"constructor", "toString", "isPrototypeOf"}

\* patternFactory(): a new instance of the factory's pattern; of the
\* built-in functions that return, Object() gives an empty object,
\* toString() the string "[object Undefined]" and isPrototypeOf() false.
Built(patternFactory) ==
  IF patternFactory[1] = "function" THEN Pattern(patternFactory[2], FreshId)
  ELSE IF patternFactory[2] = "constructor" THEN Obj(<<>>)
  ELSE IF patternFactory[2] = "toString"
    THEN Str(<<"[", "o", "b", "j", "e", "c", "t", " ", "U", "n", "d", "e", "f",
               "i", "n", "e", "d", "]">>)
  ELSE Bool(FALSE)

\* The cache pair is emptied by a query that finds no registry entry.
LeadCacheAfterReset(patternFactory, variationKey, cache) ==
  IF patternFactory = TypeError THEN cache
  ELSE IF ~Truthy(patternFactory)
    THEN [cachedVariationKey |-> Null, cachedPattern |-> Null]
  ELSE IF ~LeadRebuilds(variationKey, cache) THEN cache
  ELSE IF LeadFactoryThrows(patternFactory, variationKey, cache)
    THEN [cachedVariationKey |-> variationKey,
          cachedPattern |-> cache.cachedPattern]
  ELSE IF patternFactory[1] \in {"function", "builtin"}
    THEN [cachedVariationKey |-> variationKey,
          cachedPattern |-> Built(patternFactory)]
  ELSE [cachedVariationKey |-> variationKey, cachedPattern |-> patternFactory]

\* The cache pair a query leaves: untouched when the lookup throws (line
\* 443) and when the entry found is falsy (line 445).  cachedVariationKey is
\* assigned before the factory is called, so it is replaced even when the
\* factory throws.
LeadCacheAfter(patternFactory, variationKey, cache) ==
  IF patternFactory = TypeError \/ ~Truthy(patternFactory)
       \/ ~LeadRebuilds(variationKey, cache)
    THEN cache
  ELSE IF LeadFactoryThrows(patternFactory, variationKey, cache)
    THEN [cachedVariationKey |-> variationKey,
          cachedPattern |-> cache.cachedPattern]
  ELSE IF patternFactory[1] \in {"function", "builtin"}
    THEN [cachedVariationKey |-> variationKey,
          cachedPattern |-> Built(patternFactory)]
  ELSE [cachedVariationKey |-> variationKey, cachedPattern |-> patternFactory]

\* The query raises an exception: the lookup threw (line 443); the entry
\* found is falsy and the template literal of the warning cannot convert
\* variationKey or defaultVariation to a string (line 446, before
\* console.warn is called); the factory threw; or cachedPattern is not a
\* pattern when it is queried (it is still null, or the entry or the value
\* the function returned has no query method).
LeadThrows(patternFactory, variationKey, cache) ==
  LET Unqueryable(after) == after.cachedPattern[1] # "pattern"
  IN \/ patternFactory = TypeError
     \/ /\ ~Truthy(patternFactory)
        /\ \/ StringOf(variationKey) = TypeError
           \/ StringOf(defaultVariation) = TypeError
     \/ /\ Truthy(patternFactory)
        /\ \/ LeadFactoryThrows(patternFactory, variationKey, cache)
           \/ Unqueryable(LeadCacheAfter(patternFactory, variationKey, cache))

\* The events a query returns (none when it warns or throws).
LeadEvents(patternFactory, variationKey, cache, w) ==
  IF LeadThrows(patternFactory, variationKey, cache) THEN <<>>
  ELSE IF ~Truthy(patternFactory) THEN <<>>
  ELSE PatternQuery(LeadCacheAfter(patternFactory, variationKey, cache).cachedPattern, w)

\* One query of the pattern returned by getLeadArrangement, instance i.
LeadQuery(i, w) ==
  /\ Idle
  /\ i \in DOMAIN leadCache
  /\ LET variationKey == ReadFlag(FlagKey, defaultVariation)
         cache == leadCache[i]
         \* The query, patternFactory being the entry it finds.
         Queried(patternFactory) ==
           /\ leadCache' = [leadCache EXCEPT
                              ![i] = LeadCacheAfter(patternFactory, variationKey, cache)]
           /\ leadLog' = Keep(Append(leadLog,
                [inst |-> i, win |-> w, key |-> variationKey,
                 absent |-> flags[FlagKey] = Absent,
                 first |-> dirty[<<"lead", i>>].first,
                 mutated |-> dirty[<<"lead", i>>].any,
                 changed |-> dirty[<<"lead", i>>].key,
                 entry |-> patternFactory,
                 called |-> LeadCalls(patternFactory, variationKey, cache),
                 warned |-> ~Truthy(patternFactory)
                              /\ ~LeadThrows(patternFactory, variationKey, cache),
                 threw |-> LeadThrows(patternFactory, variationKey, cache),
                 before |-> cache, after |-> leadCache'[i],
                 out |-> LeadEvents(patternFactory, variationKey, cache, w)]), 3)
     IN Queried(PatternFactory(variationKey))
  /\ dirty' = [dirty EXCEPT ![<<"lead", i>>] = Clean]
  /\ UNCHANGED <<flags, carried, served, ldClient, provider, promise, changeHandlers, flagVars,
                 variations, defaultVariation, tempoVars, bridgeVars>>

Unresolved == [cachedVariationKey |-> Null, cachedPattern |-> Null]

\* Variant names.
Names == [techno |-> Str(<<"t">>), epiano |-> Str(<<"e">>), organ |-> Str(<<"o">>),
          piano |-> Str(<<"p">>), original |-> Str(<<"r">>), bogus |-> Str(<<"x">>),
          typo |-> Str(<<"y">>)]

\* The selectors the model constructs: a registry, a default variant and the
\* names the provider serves for the flag.
LeadSetups ==
  { [variations |-> (Names.techno :> Factory(Names.techno)) @@ (Names.epiano :> Factory(Names.epiano))
                      @@ (Names.organ :> ThrowingFactory(Names.organ)),
     defaultVariation |-> Names.techno,
     vals |-> {Names.techno, Names.epiano, Names.organ}],
    [variations |-> (Names.techno :> Factory(Names.techno)) @@ (Names.piano :> Pattern(Names.piano, 0)),
     defaultVariation |-> Names.techno,
     vals |-> {Names.piano, Names.bogus, Names.typo}],
    [variations |-> (Names.techno :> Factory(Names.techno)),
     defaultVariation |-> Names.original,
     vals |-> {Arr(<<Names.techno>>), Names.bogus}],
    [variations |-> (Names.techno :> Factory(Names.techno)) @@ (Names.organ :> Num(0)),
     defaultVariation |-> Names.techno,
     vals |-> {Names.organ, Obj([toString |-> Num(1)]),
               Str(<<"c", "o", "n", "s", "t", "r", "u", "c", "t", "o", "r">>)}],
    [variations |-> (Names.techno :> Factory(Names.techno)) @@ (Names.organ :> Num(0)),
     defaultVariation |-> Obj([toString |-> Num(1)]),
     vals |-> {Names.organ, Names.techno}] }

---------------------------------------------------------------------------
(* Objects and JSON texts                                                  *)

\* The property name of an index.
RECURSIVE IndexName(_)
IndexName(n) ==
  IF n < 10 THEN Digits[n + 1] ELSE IndexName(n \div 10) \o Digits[(n % 10) + 1]

\* { ...a, ...b } on property maps.
Spread(a, b) ==
  [k \in DOMAIN a \cup DOMAIN b |-> IF k \in DOMAIN b THEN b[k] ELSE a[k]]

\* The own enumerable properties of a value: an object's fields, the indexed
\* characters of a string, the indexed elements of an array, none otherwise.
Props(v) ==
  IF v[1] = "obj" THEN v[2]
  ELSE IF v[1] = "str"
    THEN [k \in { IndexName(i - 1) : i \in 1..Len(v[2]) } |->
            Str(<<v[2][CHOOSE i \in 1..Len(v[2]) : IndexName(i - 1) = k]>>)]
  ELSE IF v[1] = "arr"
    THEN [k \in { IndexName(i - 1) : i \in 1..Len(v[2]) } |->
            v[2][CHOOSE i \in 1..Len(v[2]) : IndexName(i - 1) = k]]
  ELSE <<>>

\* v.name
Prop(v, name) ==
  LET Of(props) == IF name \in DOMAIN props THEN props[name] ELSE Undefined
  IN Of(Props(v))

\* The value a destructuring pattern binds with "= d": d when undefined.
OrDefault(x, d) == IF x = Undefined THEN d ELSE x

\* A destructuring pattern whose rest element collects nothing.
RestNone(v, names) == <<>>

\* The rest element of an object destructuring pattern that names `names`.
Rest(v, names) ==
  LET Of(props) == [k \in DOMAIN props \ names |-> props[k]]
  IN Of(Props(v))

\* Destructuring null or undefined raises a TypeError.
DestructureThrows(v) == v \in {Null, Undefined}

\* JSON.parse.  A parse result is [ok, value, next]: next is the position
\* after the text parsed.
JsonFail == [ok |-> FALSE, value |-> Undefined, next |-> 0]
JsonOk(value, next) == [ok |-> TRUE, value |-> value, next |-> next]

JsonLiteral(s, i, word, value) ==
  IF i + Len(word) - 1 <= Len(s) /\ SubSeq(s, i, i + Len(word) - 1) = word
    THEN JsonOk(value, i + Len(word))
    ELSE JsonFail

\* The first position of s at or after i that holds no JSON white space.
RECURSIVE JsonSkip(_, _)
JsonSkip(s, i) ==
  IF i <= Len(s) /\ s[i] \in {" ", "\t", "\n", "\r"} THEN JsonSkip(s, i + 1) ELSE i

\* The position of the quote that ends a string literal whose characters
\* start at i (a character after a backslash is skipped), 0 when there is
\* none.
RECURSIVE QuoteFrom(_, _)
QuoteFrom(s, i) ==
  IF i > Len(s) THEN 0
  ELSE IF s[i] = "\"" THEN i
  ELSE IF s[i] = "\\" THEN QuoteFrom(s, i + 2)
  ELSE QuoteFrom(s, i + 1)

\* The string literal at position i: escapes are decoded; a control
\* character that is not escaped, or a backslash that starts no escape, is
\* an error.
JsonString(s, i) ==
  LET lower == <<"0", "1", "2", "3", "4", "5", "6", "7", "8", "9", "a", "b", "c",
                 "d", "e", "f">>
      upper == <<"0", "1", "2", "3", "4", "5", "6", "7", "8", "9", "A", "B", "C",
                 "D", "E", "F">>
      IsHex(c) == \E k \in 1..16 : lower[k] = c \/ upper[k] = c
      Hex(c) == (CHOOSE k \in 1..16 : lower[k] = c \/ upper[k] = c) - 1
      simple == [c \in {"\"", "\\", "/", "b", "f", "n", "r", "t"} |->
                   IF c = "b" THEN CharOf(8)
                   ELSE IF c = "f" THEN "\f"
                   ELSE IF c = "n" THEN "\n"
                   ELSE IF c = "r" THEN "\r"
                   ELSE IF c = "t" THEN "\t"
                   ELSE c]
      \* The characters from position j up to the closing quote at q,
      \* decoded; <<"error">> on an error.
      RECURSIVE Decoded(_, _, _)
      Decoded(j, q, acc) ==
        IF j >= q THEN acc
        ELSE IF s[j] \in { CharOf(k) : k \in 0..31 } THEN <<"error">>
        ELSE IF s[j] # "\\" THEN Decoded(j + 1, q, Append(acc, s[j]))
        ELSE IF s[j + 1] \in DOMAIN simple
          THEN Decoded(j + 2, q, Append(acc, simple[s[j + 1]]))
        ELSE IF s[j + 1] = "u" /\ j + 5 < q
                  /\ \A k \in (j + 2)..(j + 5) : IsHex(s[k])
          THEN Decoded(j + 6, q,
                 Append(acc, CharOf(Hex(s[j + 2]) * 4096 + Hex(s[j + 3]) * 256
                                      + Hex(s[j + 4]) * 16 + Hex(s[j + 5]))))
        ELSE <<"error">>
      Quoted(q, chars) ==
        IF chars = <<"error">> THEN JsonFail ELSE JsonOk(Str(chars), q + 1)
      Closed(q) == IF q = 0 THEN JsonFail ELSE Quoted(q, Decoded(i + 1, q, <<>>))
  IN IF i > Len(s) \/ s[i] # "\"" THEN JsonFail ELSE Closed(QuoteFrom(s, i + 1))

\* The number at position i: an optional minus, an integer part without a
\* leading zero, an optional fraction and an optional exponent, each with
\* its digits.
JsonNumber(s, i) ==
  LET Checked(literal, first) ==
        IF s[i] = "+" \/ literal.int = 0 \/ literal.frac = 0
             \/ (literal.int > 1 /\ s[first] = "0")
          THEN JsonFail
          ELSE JsonOk(literal.value, literal.next)
  IN Checked(DecimalAt(s, i), IF s[i] = "-" THEN i + 1 ELSE i)

\* The value at position i, after white space.
RECURSIVE JsonValue(_, _)
RECURSIVE JsonMembers(_, _, _)
RECURSIVE JsonElements(_, _, _)
JsonValue(s, i) ==
  LET Inside(j, k) ==
        IF s[j] = "{"
          THEN IF k <= Len(s) /\ s[k] = "}" THEN JsonOk(Obj(<<>>), k + 1)
               ELSE JsonMembers(s, j + 1, <<>>)
          ELSE IF k <= Len(s) /\ s[k] = "]" THEN JsonOk(Arr(<<>>), k + 1)
               ELSE JsonElements(s, j + 1, <<>>)
      From(j) ==
        IF j > Len(s) THEN JsonFail
        ELSE IF s[j] \in {"{", "["} THEN Inside(j, JsonSkip(s, j + 1))
        ELSE IF s[j] = "\"" THEN JsonString(s, j)
        ELSE IF s[j] = "-" \/ IsDigit(s[j]) THEN JsonNumber(s, j)
        ELSE IF s[j] \in {"n", "t", "f"}
          THEN JsonLiteral(s, j,
                 IF s[j] = "n" THEN <<"n", "u", "l", "l">>
                 ELSE IF s[j] = "t" THEN <<"t", "r", "u", "e">>
                 ELSE <<"f", "a", "l", "s", "e">>,
                 IF s[j] = "n" THEN Null ELSE Bool(s[j] = "t"))
        ELSE JsonFail
  IN From(JsonSkip(s, i))

\* The members of an object from position i on; a repeated name keeps its
\* last value.
JsonMembers(s, i, acc) ==
  LET Closed(after, all) ==
        IF after > Len(s) THEN JsonFail
        ELSE IF s[after] = "}" THEN JsonOk(Obj(all), after + 1)
        ELSE IF s[after] = "," THEN JsonMembers(s, after + 1, all)
        ELSE JsonFail
      Valued(name, member) ==
        IF ~member.ok THEN JsonFail
        ELSE Closed(JsonSkip(s, member.next),
                    Spread(acc, Join(name.value[2]) :> member.value))
      Colon(name, colon) ==
        IF colon > Len(s) \/ s[colon] # ":" THEN JsonFail
        ELSE Valued(name, JsonValue(s, colon + 1))
      Named(name) ==
        IF ~name.ok THEN JsonFail ELSE Colon(name, JsonSkip(s, name.next))
  IN Named(JsonString(s, JsonSkip(s, i)))

\* The elements of an array from position i on.
JsonElements(s, i, acc) ==
  LET Closed(after, all) ==
        IF after > Len(s) THEN JsonFail
        ELSE IF s[after] = "]" THEN JsonOk(Arr(all), after + 1)
        ELSE IF s[after] = "," THEN JsonElements(s, after + 1, all)
        ELSE JsonFail
      Valued(element) ==
        IF ~element.ok THEN JsonFail
        ELSE Closed(JsonSkip(s, element.next), Append(acc, element.value))
  IN Valued(JsonValue(s, i))

\* JSON.parse(s): the result of parsing the whole of s, one value within
\* white space; a result that is not ok when JSON.parse throws.
JsonParse(s) ==
  LET Whole(parsed) ==
        IF parsed.ok /\ JsonSkip(s, parsed.next) = Len(s) + 1 THEN parsed
        ELSE JsonFail
  IN Whole(JsonValue(s, 1))

\* JSON.parse(s) throws.
JsonThrows(s) == ~JsonParse(s).ok

---------------------------------------------------------------------------
(* The stateless bridges: polySpeed, drumKit, bassSound, leadSound, toggle *)

\* The events per cycle of the base pattern: the patterns of notes the model
\* uses have two, the others one.
BaseSteps == IF "note" \in DOMAIN baseValue THEN 2 ELSE 1

\* The base pattern (self): BaseSteps events of the payload in every cycle.
BasePattern ==
  IF BaseSteps = 1 THEN <<"pure", Obj(baseValue)>>
  ELSE <<"fast", <<BaseSteps, 1>>,
         <<"cat", [i \in 1..BaseSteps |-> <<"pure", Obj(baseValue)>>]>>>>

\* self.query(state): the events of the base pattern within the cycle w.
BaseQuery(w) == MiniQuery(BasePattern, w)

\* self._fast(speed).query(state) over the cycle w, for a speed that is a
\* number: the base pattern with time multiplied by a positive speed (a
\* fraction gives parts of events), silence for 0, and nothing for a
\* negative speed, whose query spans are empty.
FastQuery(speed, w) ==
  IF speed[1] = "num" /\ Len(speed) = 3 /\ speed[3] > 0 /\ speed[2] > 0
    THEN MiniQuery(<<"fast", <<speed[2], speed[3]>>, BasePattern>>, w)
    ELSE <<>>

\* The events of the patterns, last pattern first.
RECURSIVE FlattenReversed(_)
FlattenReversed(lists) ==
  IF lists = <<>> THEN <<>> ELSE FlattenReversed(Tail(lists)) \o Head(lists)

\* stack(...patterns).query(state): the events of each pattern in turn.
RECURSIVE Flatten(_)
Flatten(lists) == IF lists = <<>> THEN <<>> ELSE Head(lists) \o Flatten(Tail(lists))

\* polySpeed without the case of the empty array.
PolySpeedEventsStackOnly(speeds, w) ==
  IF speeds[1] = "arr"
    THEN Flatten([i \in 1..Len(speeds[2]) |-> FastQuery(speeds[2][i], w)])
    ELSE FastQuery(speeds, w)

\* The query function of polySpeed on the value read.
PolySpeedEvents(speeds, w) ==
  IF speeds[1] = "arr"
    THEN IF Len(speeds[2]) = 0 THEN BaseQuery(w)
         ELSE Flatten([i \in 1..Len(speeds[2]) |-> FastQuery(speeds[2][i], w)])
    ELSE FastQuery(speeds, w)

\* A gate that only the boolean true opens.
ToggleEventsStrict(enabled, w) ==
  IF enabled = Bool(TRUE) THEN BaseQuery(w) ELSE <<>>

\* The query function of toggle on the value read.
ToggleEvents(enabled, w) == IF Truthy(enabled) THEN BaseQuery(w) ELSE <<>>

\* A string value is replaced by what JSON.parse makes of it, unless that
\* throws.
ParsedValue(flagValue) ==
  LET Caught(parsed) == IF parsed.ok THEN parsed.value ELSE flagValue
  IN IF IsString(flagValue) THEN Caught(JsonParse(flagValue[2])) ELSE flagValue

RolandTR808 == Str(<<"R", "o", "l", "a", "n", "d", "T", "R", "8", "0", "8">>)
GmSynthBass2 == Str(<<"g", "m", "_", "s", "y", "n", "t", "h", "_", "b", "a", "s",
                      "s", "_", "2">>)
Sawtooth == Str(<<"s", "a", "w", "t", "o", "o", "t", "h">>)

\* The bundle's gain replaces the event's.
GainReplaced(v, gain) == ToNumber(gain)

\* (v.gain ?? 1) * gain
Gain(v, gain) ==
  Times(ToNumber(Nullish(Prop(Obj(v), "gain"), Num(1))), ToNumber(gain))

\* The payload drumKit's callback returns for an event whose payload is v:
\* const { bank = 'RolandTR808', gain = 1, ...effects } = parsedValue and
\* { ...v, ...effects, bank, gain: (v.gain ?? 1) * gain }, newGain being
\* that product.
DrumKitValue(parsedValue, v, newGain) ==
  Spread(Spread(v, Rest(parsedValue, {"bank", "gain"})),
         [bank |-> OrDefault(Prop(parsedValue, "bank"), RolandTR808),
          gain |-> newGain])

\* newValue.name = x, whatever x is.
SetAlways(o, name, x) == Spread(o, name :> x)

\* newValue.name = x when x is not undefined.
SetIfDefined(o, name, x) == IF x = Undefined THEN o ELSE Spread(o, name :> x)

\* The payload bassSound's callback returns for an event whose payload is v,
\* newGain being (v.gain ?? 1) * gain.
BassSoundValue(parsedValue, v, newGain) ==
  SetIfDefined(Spread(Spread(v, Rest(parsedValue, {"sound", "lpf", "gain"})),
                      [s |-> OrDefault(Prop(parsedValue, "sound"), GmSynthBass2),
                       gain |-> newGain]),
               "lpf", Prop(parsedValue, "lpf"))

\* The payload leadSound's callback returns for an event whose payload is v,
\* newGain being (v.gain ?? 1) * gain.
LeadSoundValue(parsedValue, v, newGain) ==
  SetIfDefined(SetIfDefined(Spread(Spread(v, Rest(parsedValue,
                                                  {"sound", "lpf", "lpq", "gain"})),
                                   [s |-> OrDefault(Prop(parsedValue, "sound"),
                                                    Sawtooth),
                                    gain |-> newGain]),
                            "lpf", Prop(parsedValue, "lpf")),
               "lpq", Prop(parsedValue, "lpq"))

Bundles == {"drumKit", "bassSound", "leadSound"}
BridgeKinds == Bundles \cup {"polySpeed", "toggle"}

\* The defaultValue a bridge works with: the parameter's default when the
\* argument is omitted.
DefaultArg(kind, defaultValue) ==
  IF defaultValue # Undefined THEN defaultValue
  ELSE IF kind = "polySpeed" THEN Num(1)
  ELSE IF kind = "drumKit" THEN Obj([bank |-> RolandTR808, gain |-> Num(1)])
  ELSE IF kind = "bassSound"
    THEN Obj([sound |-> GmSynthBass2, lpf |-> Num(1800), gain |-> Num(1)])
  ELSE IF kind = "leadSound"
    THEN Obj([sound |-> Sawtooth, lpf |-> Num(300), lpq |-> Num(0),
              gain |-> Num(1)])
  ELSE IF kind = "toggle" THEN Bool(TRUE)
  ELSE Undefined

\* The callback a bundle gives withHap, on an event whose payload is v: it
\* parses what its read of the store gave (flagValue), destructures the
\* result and returns the new payload, an object.  TypeError when it
\* throws: it destructures null or undefined, or the bundle's gain or the
\* event's cannot be made a number.
BundleValue(kind, flagValue, v) ==
  LET Returned(parsedValue, newGain) ==
        IF newGain = TypeError THEN TypeError
        ELSE Obj(IF kind = "drumKit"
                   THEN DrumKitValue(parsedValue, v, newGain)
                 ELSE IF kind = "bassSound"
                   THEN BassSoundValue(parsedValue, v, newGain)
                 ELSE LeadSoundValue(parsedValue, v, newGain))
      Destructured(parsedValue) ==
        IF DestructureThrows(parsedValue) THEN TypeError
        ELSE Returned(parsedValue,
                      Gain(v, OrDefault(Prop(parsedValue, "gain"), Num(1))))
  IN Destructured(ParsedValue(flagValue))

\* The callback of a bundle raises an exception on the events of the base
\* pattern.
BridgeThrows(kind, value) ==
  kind \in Bundles /\ BundleValue(kind, value, baseValue) = TypeError

\* The events a query of a stateless bridge returns when every read of the
\* store gives value (none when it throws): polySpeed and toggle read once
\* in a query, a bundle once in the callback of every event.
BridgeEvents(kind, value, w) ==
  IF kind = "polySpeed" THEN PolySpeedEvents(value, w)
  ELSE IF kind = "toggle" THEN ToggleEvents(value, w)
  ELSE IF BridgeThrows(kind, value) THEN <<>>
  ELSE [i \in DOMAIN BaseQuery(w) |->
          [BaseQuery(w)[i] EXCEPT !.value = BundleValue(kind, value, @[2])]]

\* A bundle read from the store is laid over the fields of the default
\* bundle.
BridgeObservedMerging(kind, w) ==
  LET Called(defaultValue, value, hap, payload, events) ==
        [kind |-> kind, win |-> w,
         absent |-> flags[bridgeKey] = Absent,
         stored |-> Stored(flags, bridgeKey),
         defaultValue |-> defaultValue, value |-> value, reads |-> <<value>>,
         threw |-> kind \in Bundles /\ payload = TypeError,
         out |-> IF kind \notin Bundles THEN events
                 ELSE IF payload = TypeError THEN <<>>
                 ELSE <<[hap EXCEPT !.value = payload]>>]
  IN Called(DefaultArg(kind, bridgeDefault),
            ReadFlag(bridgeKey, DefaultArg(kind, bridgeDefault)),
            BaseQuery(w)[1],
            IF kind \in Bundles
              THEN BundleValue(kind,
                               Obj(Spread(Props(ParsedValue(DefaultArg(kind, bridgeDefault))),
                                          Props(ParsedValue(
                                            ReadFlag(bridgeKey,
                                                     DefaultArg(kind, bridgeDefault)))))),
                               BaseQuery(w)[1].value[2])
            ELSE Undefined,
            IF kind = "polySpeed"
              THEN PolySpeedEvents(ReadFlag(bridgeKey,
                                            DefaultArg(kind, bridgeDefault)), w)
            ELSE IF kind = "toggle"
              THEN ToggleEvents(ReadFlag(bridgeKey,
                                         DefaultArg(kind, bridgeDefault)), w)
            ELSE <<>>)

\* What a query of the stateless bridge over the cycle w is observed to do,
\* up to the return of the first callback for a bundle: the value read, and
\* the events returned so far.  polySpeed and toggle read the store once
\* (flags[flagKey] ?? defaultValue) and compute the events from the value; a
\* bundle reads it in the callback, which withHap runs on every event of the
\* base pattern and which gives the event its new payload.
BridgeObserved(kind, w) ==
  LET Called(defaultValue, value, hap, payload, events) ==
        [kind |-> kind, win |-> w,
         absent |-> flags[bridgeKey] = Absent,
         stored |-> Stored(flags, bridgeKey),
         defaultValue |-> defaultValue, value |-> value, reads |-> <<value>>,
         threw |-> kind \in Bundles /\ payload = TypeError,
         out |-> IF kind \notin Bundles THEN events
                 ELSE IF payload = TypeError THEN <<>>
                 ELSE <<[hap EXCEPT !.value = payload]>>]
  IN Called(DefaultArg(kind, bridgeDefault),
            ReadFlag(bridgeKey, DefaultArg(kind, bridgeDefault)),
            BaseQuery(w)[1],
            IF kind \in Bundles
              THEN BundleValue(kind,
                               ReadFlag(bridgeKey, DefaultArg(kind, bridgeDefault)),
                               BaseQuery(w)[1].value[2])
            ELSE Undefined,
            IF kind = "polySpeed"
              THEN PolySpeedEvents(ReadFlag(bridgeKey,
                                            DefaultArg(kind, bridgeDefault)), w)
            ELSE IF kind = "toggle"
              THEN ToggleEvents(ReadFlag(bridgeKey,
                                         DefaultArg(kind, bridgeDefault)), w)
            ELSE <<>>)

\* A query of the pattern a stateless bridge (polySpeed, drumKit, bassSound,
\* leadSound or toggle) returned, over the cycle w: the whole query of
\* polySpeed and toggle; of a bundle the query of the base pattern and the
\* callback on its first event, which ends the query when it throws or
\* there is no other event.
BridgeQuery(kind, w) ==
  /\ Idle
  /\ bridgeKind = kind
  /\ LET Started(e) ==
           IF kind \in Bundles /\ ~e.threw /\ Len(BaseQuery(w)) > 1
             THEN running' = e /\ bridgeLog' = bridgeLog
             ELSE running' = <<>> /\ bridgeLog' = <<e>>
     IN Started(BridgeObserved(kind, w))
  /\ UNCHANGED <<flags, carried, served, ldClient, provider, promise, changeHandlers, flagVars,
                 leadVars, tempoVars, bridgeKind, bridgeKey, bridgeDefault, baseValue,
                 dirty>>

\* The callback of the bundle query in progress on its next event: it reads
\* the store again.  The query ends when the callback throws or has been
\* given the last event.
WithHap ==
  /\ running # <<>>
  /\ LET Called(value, haps, payload) ==
           LET e == [running EXCEPT
                       !.reads = Append(@, value),
                       !.threw = payload = TypeError,
                       !.out = IF payload = TypeError THEN <<>>
                               ELSE Append(@, [haps[Len(@) + 1] EXCEPT
                                                 !.value = payload])]
           IN IF e.threw \/ Len(e.out) = Len(haps)
                THEN running' = <<>> /\ bridgeLog' = <<e>>
                ELSE running' = e /\ bridgeLog' = bridgeLog
     IN Called(ReadFlag(bridgeKey, running.defaultValue),
               BaseQuery(running.win),
               BundleValue(running.kind,
                           ReadFlag(bridgeKey, running.defaultValue),
                           BaseQuery(running.win)[Len(running.out) + 1].value[2]))
  /\ UNCHANGED <<flags, carried, served, ldClient, provider, promise, changeHandlers, flagVars,
                 leadVars, tempoVars, bridgeKind, bridgeKey, bridgeDefault, baseValue,
                 dirty>>

---------------------------------------------------------------------------
(* Tempo Synchronizer: setcpmFlag(flagKey, defaultValue, divisor)          *)

\* pure(0).withValue(() => ({})): the pattern setcpmFlag returns, a constant
\* pattern and the payload its events are given.
ReturnedPattern == <<"withValue", Num(0), Obj(<<>>)>>

\* query of such a pattern over the cycle w: the events of the constant
\* pattern, each with the payload replaced.
ReturnedQuery(p, w) ==
  LET WithValue(events) == [i \in DOMAIN events |-> [events[i] EXCEPT !.value = p[3]]]
  IN WithValue(PureQuery(p[2], w))

\* A listener is registered without the map check.
TempoRegistersAlways(flagKey) == TRUE

\* !tempoListeners.has(flagKey)
TempoRegisters(flagKey) == flagKey \notin DOMAIN tempoListeners

\* One call of setcpmFlag, with the arguments given (Undefined: omitted;
\* defaultValue is then 100 and divisor 1): the tempo is applied, then the
\* listener is registered unless the map has one for the key, and attached
\* to the client when there is a client.  A call in which getValue() throws
\* ends there: nothing is applied, registered, attached or returned.
SetcpmFlag(flagKey, defaultArg, divisorArg) ==
  LET Body(defaultValue, divisor) ==
        LET listener == TempoHandler(flagKey, defaultValue, divisor)
            \* The call, value being what its getValue() gave.
            Called(value, threw, registers) ==
              /\ cpm' = ApplyTempo(cpm, value)
              /\ tempoListeners' = IF registers
                                     THEN (flagKey :> listener) @@ tempoListeners
                                     ELSE tempoListeners
              /\ changeHandlers' = IF registers /\ ldClient
                                     THEN Append(changeHandlers, listener)
                                     ELSE changeHandlers
              /\ tempoLog' = Keep(Append(tempoLog,
                   [key |-> flagKey, defaultValue |-> defaultValue,
                    divisor |-> divisor,
                    absent |-> flags[flagKey] = Absent,
                    raw |-> Stored(flags, flagKey),
                    threw |-> threw,
                    returned |-> IF threw THEN Undefined ELSE ReturnedPattern,
                    applied |-> IF hasSetcpm /\ ~threw THEN <<value>> ELSE <<>>,
                    registered |-> registers,
                    attached |-> registers /\ ldClient]), 1)
            Got(value) == Called(value, value = TypeError,
                                 value # TypeError /\ TempoRegisters(flagKey))
        IN Got(GetValue(flags, flagKey, defaultValue, divisor))
  IN /\ Idle
     /\ Body(OrDefault(defaultArg, Num(100)), OrDefault(divisorArg, Num(1)))
     /\ UNCHANGED <<flags, carried, served, ldClient, provider, promise, flagVars, leadVars,
                    hasSetcpm, notified, bridgeVars, dirty>>

\* The tempo values the provider serves and the arguments setcpmFlag is
\* called with.
TempoVals == {Num(120), Str(<<CharOf(160), "9", "e", "1">>), Str(<<"-", "5">>),
              Str(<<"f", "a", "s", "t">>), Null, Obj([toString |-> Num(1)])}
TempoArgs == {<<Num(110), Num(4)>>, <<Str(<<"1", "0", "0">>), Num(1)>>,
              <<Undefined, Undefined>>}

\* The strings and scalars the model stores under a scalar flag.
Strings ==
  [plain |-> Str(<<"c">>),
   alt |-> Str(<<"<", "g", ":", "m", "i", "n", "o", "r", "*", "2", " ",
                 "d", ":", "m", "a", "j", "o", "r", "*", "2", ">">>),
   group |-> Str(<<"[", "b", "]">>),
   bad |-> Str(<<"<", "a">>)]
FlagVals == {Strings.plain, Strings.alt, Strings.group, Strings.bad}
OtherVals == {Num(1)}

InitStore ==
  /\ flags = [k \in Keys |-> Absent]
  /\ carried = [k \in Keys |-> Absent]
  /\ ldClient = FALSE
  /\ provider = "none"
  /\ promise = "none"
  /\ changeHandlers = <<>>

\* setcpmFlag has not been called.
NoTempo ==
  /\ tempoListeners = <<>>
  /\ hasSetcpm = TRUE
  /\ cpm = Undefined
  /\ tempoLog = <<>>
  /\ notified = <<>>

\* No selector exists.
NoLead ==
  /\ variations = <<>>
  /\ defaultVariation = Undefined
  /\ leadCache = <<>>
  /\ leadLog = <<>>

\* No stateless bridge exists.
NoBridge ==
  /\ bridgeKind = "none"
  /\ bridgeKey = FlagKey
  /\ bridgeDefault = Undefined
  /\ baseValue = <<>>
  /\ bridgeLog = <<>>
  /\ running = <<>>

InitFlag ==
  /\ InitStore
  /\ NoBridge
  /\ served = (FlagKey :> FlagVals) @@ (OtherKey :> OtherVals)
  /\ NoLead
  /\ NoTempo
  /\ flagDefault \in {Strings.alt, Strings.bad, Num(2)}
  /\ flagCache = [i \in {1} |-> NoCache]
  /\ flagLog = <<>>
  /\ dirty = [b \in {<<"flag", 1>>} |-> New]

\* No flag() instance exists.
NoFlag ==
  /\ flagDefault = Undefined
  /\ flagCache = <<>>
  /\ flagLog = <<>>

InitLead ==
  /\ InitStore
  /\ NoBridge
  /\ NoFlag
  /\ NoTempo
  /\ \E setup \in LeadSetups :
       /\ variations = setup.variations
       /\ defaultVariation = setup.defaultVariation
       /\ served = (FlagKey :> setup.vals) @@ (OtherKey :> {})
  /\ leadCache = [i \in {1} |-> Unresolved]
  /\ leadLog = <<>>
  /\ dirty = [b \in {<<"lead", 1>>} |-> New]

NextLead ==
  \/ InitLaunchDarkly
  \/ Ready
  \/ Failed
  \/ Change
  \/ LeadQuery(1, 0)

SpecLead == InitLead /\ [][NextLead]_vars

InitTempo ==
  /\ InitStore
  /\ NoBridge
  /\ served = (FlagKey :> TempoVals) @@ (OtherKey :> {Num(80)})
  /\ NoFlag
  /\ NoLead
  /\ tempoListeners = <<>>
  /\ hasSetcpm \in BOOLEAN
  /\ cpm = Undefined
  /\ tempoLog = <<>>
  /\ notified = <<>>
  /\ dirty = <<>>

NextTempo ==
  \/ InitLaunchDarkly
  \/ Ready
  \/ Failed
  \/ Change
  \/ \E k \in Keys, a \in TempoArgs : SetcpmFlag(k, a[1], a[2])

SpecTempo == InitTempo /\ [][NextTempo]_vars

NextFlag ==
  \/ InitLaunchDarkly
  \/ Ready
  \/ Failed
  \/ Change
  \/ \E w \in Windows : FlagQuery(1, w)

SpecFlag == InitFlag /\ [][NextFlag]_vars

---------------------------------------------------------------------------
(* The whole bridge layer: a script that builds one construct              *)

\* JSON texts and other values served under a bundle's flag.
Texts ==
  [gain |-> Str(<<"{", "\"", "g", "a", "i", "n", "\"", ":", "2", "}">>),
   sound |-> Str(<<"{", "\"", "s", "o", "u", "n", "d", "\"", ":", "\"", "\\", "u",
                   "0", "0", "6", "F", "\"", ",", " ", "\"", "l", "p", "f", "\"",
                   ":", "8", "e", "1", ",",
                   "\"", "l", "p", "q", "\"", ":", "0", ".", "5", "}">>),
   null |-> Str(<<"n", "u", "l", "l">>),
   other |-> Str(<<"h", "i">>)]
RolandTR909 == Str(<<"R", "o", "l", "a", "n", "d", "T", "R", "9", "0", "9">>)

\* The payloads of the base pattern.
BaseValues ==
  { [s |-> Str(<<"b", "d">>)],
    [s |-> Str(<<"b", "d">>), gain |-> Num(2), lpf |-> Num(100)],
    [s |-> Str(<<"b", "d">>), gain |-> Null],
    [note |-> Num(60), gain |-> Num(0), bank |-> RolandTR909] }

\* The stateless bridges the model builds: the kind, the flagKey argument,
\* the defaultValue arguments (Undefined: omitted) and the values the
\* provider serves.  polySpeed is built on FlagKey only: what the engine
\* makes of a speed that is a function is not in this code.
BridgeSetups ==
  { [kind |-> "polySpeed", keys |-> {FlagKey},
     defaults |-> {Undefined, Arr(<<Num(2), Num(1)>>)},
     vals |-> {Num(3), Num(0), <<"num", 3, 2>>, Arr(<<>>), Arr(<<Num(3)>>),
               Arr(<<Num(1), Num(2)>>), Null}],
    [kind |-> "toggle", keys |-> Keys,
     defaults |-> {Undefined, Bool(FALSE)},
     vals |-> {Bool(TRUE), Bool(FALSE), Num(0), Texts.other, Null, Undefined}],
    [kind |-> "drumKit", keys |-> Keys,
     defaults |-> {Undefined, Obj([bank |-> RolandTR909]), Texts.gain},
     vals |-> {Obj([bank |-> RolandTR909, gain |-> <<"num", 3, 2>>, room |-> Num(1)]),
               Obj([gain |-> Null]), Texts.gain, Texts.other, Texts.null, Null}],
    [kind |-> "bassSound", keys |-> Keys,
     defaults |-> {Undefined, Obj([sound |-> Sawtooth])},
     vals |-> {Obj([sound |-> Sawtooth, lpf |-> Num(800), gain |-> <<"num", 6, 5>>]),
               Obj([lpf |-> Null, room |-> Num(1)]),
               Obj([gain |-> Obj([toString |-> Num(1)])]), Texts.sound,
               Texts.other, Texts.null, Null}],
    [kind |-> "leadSound", keys |-> Keys,
     defaults |-> {Undefined, Obj([lpq |-> Num(5)])},
     vals |-> {Obj([sound |-> GmSynthBass2, lpf |-> Num(800), lpq |-> Num(1),
                    s |-> Str(<<"x">>), room |-> Num(1)]),
               Texts.sound, Texts.other, Texts.null, Undefined}] }

InitBridge ==
  /\ InitStore
  /\ NoFlag
  /\ NoLead
  /\ NoTempo
  /\ \E setup \in BridgeSetups :
       /\ bridgeKind = setup.kind
       /\ bridgeKey \in setup.keys
       /\ bridgeDefault \in setup.defaults
       /\ served = (bridgeKey :> setup.vals) @@ [k \in Keys |-> OtherVals]
  /\ baseValue \in BaseValues
  /\ bridgeLog = <<>>
  /\ running = <<>>
  /\ dirty = <<>>

\* The script calls setcpmFlag, and builds no bridge.
TempoScript == bridgeKind = "none" /\ flagCache = <<>> /\ leadCache = <<>>

Init == InitFlag \/ InitLead \/ InitTempo \/ InitBridge

Next ==
  \/ InitLaunchDarkly
  \/ Ready
  \/ Failed
  \/ Change
  \/ \E w \in Windows : FlagQuery(1, w)
  \/ \E kind \in BridgeKinds, w \in Windows : BridgeQuery(kind, w)
  \/ WithHap
  \/ LeadQuery(1, 0)
  \/ TempoScript /\ \E k \in Keys, a \in TempoArgs : SetcpmFlag(k, a[1], a[2])

Spec == Init /\ [][Next]_vars

NextBridge ==
  \/ InitLaunchDarkly
  \/ Ready
  \/ Failed
  \/ Change
  \/ \E kind \in BridgeKinds, w \in Windows : BridgeQuery(kind, w)
  \/ WithHap

SpecBridge == InitBridge /\ [][NextBridge]_vars

\* A script that calls flag() twice, or getLeadArrangement twice, with the
\* same key and arguments: two instances of one bridge.
InitPair ==
  /\ InitStore
  /\ NoBridge
  /\ NoTempo
  /\ \/ /\ NoLead
        /\ served = (FlagKey :> {Strings.group, Strings.plain}) @@ (OtherKey :> {})
        /\ flagDefault = Strings.alt
        /\ flagCache = [i \in {1, 2} |-> NoCache]
        /\ flagLog = <<>>
        /\ dirty = [b \in {<<"flag", 1>>, <<"flag", 2>>} |-> New]
     \/ /\ NoFlag
        /\ variations = (Names.techno :> Factory(Names.techno)) @@ (Names.epiano :> Factory(Names.epiano))
                          @@ (Names.piano :> Pattern(Names.piano, 0))
        /\ defaultVariation = Names.techno
        /\ served = (FlagKey :> {Names.epiano}) @@ (OtherKey :> {})
        /\ leadCache = [i \in {1, 2} |-> Unresolved]
        /\ leadLog = <<>>
        /\ dirty = [b \in {<<"lead", 1>>, <<"lead", 2>>} |-> New]

NextPair ==
  \/ InitLaunchDarkly
  \/ Ready
  \/ Failed
  \/ Change
  \/ \E i \in {1, 2}, w \in Windows : FlagQuery(i, w)
  \/ \E i \in {1, 2}, w \in Windows : LeadQuery(i, w)

SpecPair == InitPair /\ [][NextPair]_vars

---------------------------------------------------------------------------
(* Properties of the Cached Variant Selector                               *)

\* The first query of a tenure of the flag value: the instance's first query,
\* or the first one after the value under the key was changed.
LeadRunStart(e) == e.first \/ e.changed

\* The entry the query found is a function: a factory of the registry, or a
\* function the registry inherits.
FoundFactory(e) == e.entry[1] \in {"function", "builtin"}

\* C1 (as claimed): the first query after a change of the flag value that
\* returns events returns the events of the variant the new value resolves to,
\* and of the string the new value is.
C1_Freshness ==
  /\ \A n \in DOMAIN leadLog :
       LET e == leadLog[n]
       IN (e.changed /\ ~e.threw /\ ~e.warned)
            => e.out = PatternQuery(Pattern(e.entry[2], 0), e.win)
  /\ \A n \in DOMAIN flagLog :
       LET e == flagLog[n]
       IN (e.changed /\ ~e.failed)
            => e.out = IF hasMiniNotation(e.value)
                         THEN MiniQuery(Mini(e.value[2]), e.win)
                         ELSE PureQuery(e.value, e.win)

\* C2 (as claimed): two queries of the same window on one instance with no
\* store write between them have the same outcome.
C2_Determinism ==
  /\ \A n \in { m \in 1..(Len(leadLog) - 1) :
                 leadLog[m].inst = leadLog[m + 1].inst } :
       (~leadLog[n + 1].mutated /\ leadLog[n].win = leadLog[n + 1].win)
         => /\ leadLog[n].threw = leadLog[n + 1].threw
            /\ leadLog[n].out = leadLog[n + 1].out
  /\ \A n \in 1..(Len(flagLog) - 1) :
       (flagLog[n].inst = flagLog[n + 1].inst /\ ~flagLog[n + 1].mutated
          /\ flagLog[n].win = flagLog[n + 1].win)
         => flagLog[n].out = flagLog[n + 1].out

\* C4 (as claimed): of the consecutive queries made while the flag value stays
\* the same, the first one calls the selected variant's factory and the later
\* ones call none and keep the pattern instance.
C4_ExactlyOncePerTenure ==
  \A n \in DOMAIN leadLog :
    LET e == leadLog[n]
    IN FoundFactory(e)
         => IF LeadRunStart(e)
              THEN e.called
              ELSE ~e.called /\ e.after.cachedPattern = e.before.cachedPattern

\* C4 (amended): of the consecutive queries made while the flag value stays
\* the same, only the first can call a factory, and it does so exactly when
\* the entry it finds is a function and the value requested is not identical
\* to the value the instance cached when it last rebuilt: not when the flag
\* left a string and came back to it with no query in between, and again
\* when an array or object was delivered anew; every later query calls none
\* and keeps the cached pattern instance.
C4_AtMostOncePerTenure ==
  \A n \in DOMAIN leadLog :
    LET e == leadLog[n]
    IN /\ LeadRunStart(e)
            => (e.called <=> (FoundFactory(e)
                                /\ ~StrictEquals(e.key, e.before.cachedVariationKey)))
       /\ ~LeadRunStart(e)
            => ~e.called /\ e.after.cachedPattern = e.before.cachedPattern

\* An array was delivered again while the instance had cached its equal: the
\* first query of the tenure rebuilt, the second one reused the instance.
C4_Witness ==
  /\ Len(leadLog) >= 2
  /\ LET e1 == leadLog[Len(leadLog) - 1]
         e2 == leadLog[Len(leadLog)]
     IN /\ e1.changed /\ e1.called /\ ~e1.threw
        /\ e1.key[1] = "arr"
        /\ Content(e1.key) = Content(e1.before.cachedVariationKey)
        /\ e1.after.cachedPattern # e1.before.cachedPattern
        /\ ~e2.first /\ ~e2.mutated /\ ~e2.called
        /\ e2.after.cachedPattern = e1.after.cachedPattern
        /\ e2.out # <<>>

\* C5 (as claimed): a query that finds a factory calls it exactly when the
\* instance is unresolved or the resolved variant name is not the variant of
\* the cached pattern; and of two consecutive queries whose flag values
\* resolve to the same registry entry the second calls no factory.
C5_RebuildOnResolvedName ==
  /\ \A n \in DOMAIN leadLog :
       LET e == leadLog[n]
       IN (FoundFactory(e) /\ (e.before = Unresolved
                             \/ (e.before.cachedPattern[1] = "pattern"
                                   /\ e.before.cachedPattern[2]
                                        = ResolvedName(e.before.cachedVariationKey))))
            => (e.called <=> (e.before = Unresolved
                               \/ ResolvedName(e.key) # e.before.cachedPattern[2]))
  /\ \A n \in { m \in 1..(Len(leadLog) - 1) :
                 leadLog[m].inst = leadLog[m + 1].inst } :
       (FoundFactory(leadLog[n]) /\ leadLog[n].entry = leadLog[n + 1].entry)
         => ~leadLog[n + 1].called

\* C6 (as claimed): a requested name that is not in the registry is served by
\* the entry of defaultVariation, and a factory called for it builds the
\* default variant's pattern; when that entry is absent too the query warns,
\* returns no events, raises nothing, calls no factory and leaves the cache
\* pair alone.
C6_Fallback ==
  \A n \in DOMAIN leadLog :
    LET e == leadLog[n]
    IN e.key \notin DOMAIN variations
         => IF defaultVariation \in DOMAIN variations
              THEN /\ e.entry = variations[defaultVariation]
                   /\ ~e.warned
                   /\ e.called => e.after.cachedPattern[2] = defaultVariation
                   /\ ~e.threw => e.out = PatternQuery(Pattern(defaultVariation, 0), e.win)
              ELSE /\ e.warned /\ e.out = <<>> /\ ~e.threw /\ ~e.called
                   /\ e.after = e.before

---------------------------------------------------------------------------
(* Properties of the Scalar Bridge                                         *)

\* Two consecutive logged queries of one flag() instance.
FlagPairs ==
  { n \in 1..(Len(flagLog) - 1) : flagLog[n].inst = flagLog[n + 1].inst }

\* The number of parser calls of a logged query.
ParserCalls(e) == IF e.parsed THEN 1 ELSE 0

\* C8 (as claimed): the first two queries that see an embedded-syntax string,
\* with no store write between them, call the parser once in total; and a
\* query that sees another embedded-syntax string than the query before it
\* calls the parser.
C8_ParseOnce ==
  \A n \in FlagPairs :
    LET e1 == flagLog[n]
        e2 == flagLog[n + 1]
    IN /\ (hasMiniNotation(e1.value) /\ (e1.first \/ e1.changed) /\ ~e2.mutated)
            => ParserCalls(e1) + ParserCalls(e2) = 1
       /\ (hasMiniNotation(e1.value) /\ hasMiniNotation(e2.value)
            /\ e1.value # e2.value)
            => e2.parsed

\* C8 (amended): for an embedded-syntax string that parses, two consecutive
\* queries with no store write between them call the parser at most once in
\* total: the first exactly when the string is not the cached one, the second
\* never; a string that fails to parse is parsed again by every query; a query
\* that sees another embedded-syntax string than the query before it calls
\* the parser unless that string is the cached one.
C8_ParseUnlessCached ==
  \A n \in FlagPairs :
    LET e1 == flagLog[n]
        e2 == flagLog[n + 1]
    IN /\ (hasMiniNotation(e1.value) /\ ~e2.mutated)
            => IF MiniThrows(e1.value[2])
                 THEN e1.parsed /\ e1.failed /\ e2.parsed /\ e2.failed
                 ELSE /\ e1.parsed <=> e1.value # e1.before.cachedValue
                      /\ ~e1.failed
                      /\ ~e2.parsed
                      /\ e2.after = e1.after
                      /\ e1.after.cachedValue = e1.value
       /\ (hasMiniNotation(e1.value) /\ hasMiniNotation(e2.value)
            /\ e1.value # e2.value)
            => (e2.parsed <=> e2.value # e2.before.cachedValue)

\* A string parsed by the first of two queries and reused by the second.
C8_Witness ==
  /\ Len(flagLog) = 2
  /\ LET e1 == flagLog[1]
         e2 == flagLog[2]
     IN /\ hasMiniNotation(e1.value) /\ e1.changed /\ e1.parsed /\ ~e1.failed
        /\ e1.before.cachedValue # Null
        /\ ~e2.mutated /\ ~e2.parsed /\ e2.out = e1.out /\ e2.out # <<>>

\* C9: a query whose parse fails returns the events of the constant pattern
\* of the raw string, raises nothing and leaves the cache pair as it was; the
\* next query, if it sees the cached string, reuses the cached pattern and
\* does not parse.  Every string that does not parse takes this path.
C9_ParseFailure ==
  /\ \A n \in DOMAIN flagLog :
       LET e == flagLog[n]
       IN /\ e.failed
               => /\ e.out = PureQuery(e.value, e.win)
                  /\ ~e.threw
                  /\ e.after = e.before
          /\ (hasMiniNotation(e.value) /\ MiniThrows(e.value[2])) => e.failed
  /\ \A n \in FlagPairs :
       LET e1 == flagLog[n]
           e2 == flagLog[n + 1]
       IN (e1.failed /\ e2.value = e1.before.cachedValue)
            => /\ ~e2.parsed
               /\ e2.out = MiniQuery(e1.before.cachedPattern, e2.win)
               /\ e2.after = e1.before

\* A failed parse between two queries of the cached string.
C9_Witness ==
  /\ Len(flagLog) = 2
  /\ LET e1 == flagLog[1]
         e2 == flagLog[2]
     IN /\ e1.failed /\ e1.before.cachedValue # Null
        /\ e2.value = e1.before.cachedValue /\ ~e2.parsed
        /\ e2.out # <<>>

---------------------------------------------------------------------------
(* Properties of the Tempo Synchronizer                                    *)

\* C10: whatever calls of setcpmFlag and initLaunchDarkly and whatever
\* notifications have happened, at most one tempo handler per flag key is
\* attached to the client, and it is the listener the registry holds for
\* that key.
C10_OneListenerPerKey ==
  \A k \in Keys :
    LET attached == { n \in DOMAIN changeHandlers :
                        changeHandlers[n].kind = "tempo"
                          /\ changeHandlers[n].key = k }
    IN /\ Cardinality(attached) <= 1
       /\ \A n \in attached :
            k \in DOMAIN tempoListeners /\ tempoListeners[k] = changeHandlers[n]

\* setcpmFlag was called again for a key whose listener is attached.
C10_Witness ==
  /\ tempoLog # <<>>
  /\ ~tempoLog[1].registered
  /\ Cardinality({ n \in DOMAIN changeHandlers :
                     changeHandlers[n].kind = "tempo"
                       /\ changeHandlers[n].key = tempoLog[1].key }) = 1
  /\ provider = "ready"

\* C11 (as claimed): once setcpmFlag has been called for a key, a change
\* notification for that key alone makes the tempo the one computed from the
\* new flag value with the listener's arguments, whether setcpmFlag was
\* called before or after initLaunchDarkly.
C11_Reactivity ==
  [][(provider = "ready" /\ hasSetcpm)
       => \A k \in Keys :
            ({ j \in Keys : flags'[j] # flags[j] } = {k}
               /\ k \in DOMAIN tempoListeners)
              => cpm' = GetValue(flags', k, tempoListeners[k].defaultValue,
                                 tempoListeners[k].divisor)]_vars


\* C12 (as claimed): the pattern setcpmFlag returned yields no events over
\* any window.
C12_ReturnsSilence ==
  \A n \in DOMAIN tempoLog :
    tempoLog[n].returned # Undefined
      => \A w \in Windows : ReturnedQuery(tempoLog[n].returned, w) = <<>>

\* C13 (as claimed): every call of setcpmFlag, a repeated one included, calls
\* the tempo primitive exactly once, with the raw value (the default when the
\* key is absent; a string converted to a number) divided by the divisor.
C13_AppliesOnce ==
  \A n \in DOMAIN tempoLog :
    LET e == tempoLog[n]
        From(v) ==
          e.applied
            = <<Over(ToNumber(IF IsString(v) THEN ParseFloat(v[2]) ELSE v),
                     ToNumber(e.divisor))>>
    IN From(IF e.absent THEN e.defaultValue ELSE e.raw)

\* C13 (amended): every call of setcpmFlag, a repeated one included,
\* computes v / divisor, v being flags[K] ?? default: what reading the store
\* under K gives (its own value, else what the store inherits under that
\* name from Object.prototype), or the default when that is undefined or
\* null; a string v is converted with parseFloat.  When v or the divisor
\* cannot be converted to a number the call throws and applies nothing.
\* Otherwise it calls setcpm (or setCpm) exactly once with that number when
\* one of them is a function, and applies no tempo when neither is.
C13_AppliesOnceIfAvailable ==
  /\ [](\A n \in DOMAIN tempoLog :
          LET e == tempoLog[n]
              Computed(number) ==
                /\ e.threw <=> number = TypeError
                /\ e.applied = IF hasSetcpm /\ number # TypeError
                                 THEN <<number>> ELSE <<>>
              From(v) ==
                Computed(Over(ToNumber(IF IsString(v) THEN ParseFloat(v[2]) ELSE v),
                              ToNumber(e.divisor)))
          IN From(IF e.raw \in {Undefined, Null} THEN e.defaultValue ELSE e.raw))
  /\ [][tempoLog' # tempoLog
          => LET e == tempoLog'[1]
             IN /\ e.absent <=> flags[e.key] = Absent
                /\ e.raw = IF flags[e.key] = Absent THEN Inherited(e.key)
                           ELSE flags[e.key]
                /\ cpm' = IF e.applied = <<>> THEN cpm ELSE e.applied[1]]_vars

\* A repeated call with default 110 and divisor 4 for a key under which the
\* store holds null: 27.5.
C13_Witness ==
  /\ tempoLog # <<>>
  /\ ~tempoLog[1].registered
  /\ ~tempoLog[1].absent
  /\ tempoLog[1].raw = Null
  /\ tempoLog[1].defaultValue = Num(110) /\ tempoLog[1].divisor = Num(4)
  /\ tempoLog[1].applied = << <<"num", 55, 2>> >>
  /\ cpm = <<"num", 55, 2>>

\* C35: the store's change handler is registered before every tempo
\* listener, so that it runs first: when a notification for one key is
\* delivered and a tempo listener for that key is attached to the client,
\* the store holds the value the notification carried before any listener
\* runs; whatever a listener computes in response is computed from the store
\* as the notification left it, the listener of the key runs unless a
\* listener throws, and a tempo applied in response is one so computed.
C35_StoreHandlerFirst ==
  /\ [](\A n \in DOMAIN changeHandlers :
          changeHandlers[n].kind = "store" <=> n = 1)
  /\ [][provider = "ready"
         => \A n \in DOMAIN changeHandlers :
              LET h == changeHandlers[n]
              IN (h.kind = "tempo"
                    /\ { j \in Keys : flags'[j] # flags[j] } = {h.key})
                   => /\ flags'[h.key] = carried'[h.key]
                      /\ \A i \in DOMAIN notified' :
                           notified'[i].value
                             = GetValue(carried', notified'[i].key,
                                        tempoListeners[notified'[i].key].defaultValue,
                                        tempoListeners[notified'[i].key].divisor)
                      /\ (\A i \in DOMAIN notified' :
                            notified'[i].value # TypeError)
                           => \E i \in DOMAIN notified' :
                                /\ notified'[i].key = h.key
                                /\ notified'[i].value
                                     = GetValue(carried', h.key, h.defaultValue,
                                                h.divisor)
                      /\ cpm' # cpm
                           => /\ hasSetcpm
                              /\ \E i \in DOMAIN notified' :
                                   cpm' = notified'[i].value]_vars

\* The tempo follows a notification: it is the one computed from the value
\* now stored, which is not the value the latest setcpmFlag call read.
C35_Witness ==
  /\ provider = "ready"
  /\ Len(changeHandlers) = 2
  /\ changeHandlers[2].key = FlagKey
  /\ tempoLog # <<>>
  /\ tempoLog[1].key = FlagKey
  /\ ~tempoLog[1].absent
  /\ tempoLog[1].raw # flags[FlagKey]
  /\ Len(notified) = 1
  /\ cpm = notified[1].value
  /\ cpm = GetValue(flags, FlagKey, changeHandlers[2].defaultValue,
                    changeHandlers[2].divisor)
  /\ cpm # GetValue([flags EXCEPT ![FlagKey] = tempoLog[1].raw], FlagKey,
                    changeHandlers[2].defaultValue, changeHandlers[2].divisor)

\* C36 (as claimed): every setcpmFlag call applies the tempo computed with
\* its own default and divisor; the listener registered for a key is never
\* replaced, so it keeps the arguments of the call that registered it; and
\* what a listener computes on a notification is computed with those
\* arguments.
C36_ArgumentsFixed ==
  /\ [](\A n \in DOMAIN tempoLog :
          LET e == tempoLog[n]
          IN e.applied = <<GetValue([k \in Keys |-> IF k = e.key /\ ~e.absent
                                                      THEN e.raw ELSE Absent],
                                    e.key, e.defaultValue, e.divisor)>>)
  /\ [][/\ \A k \in DOMAIN tempoListeners :
             k \in DOMAIN tempoListeners' /\ tempoListeners'[k] = tempoListeners[k]
        /\ (tempoLog' # tempoLog /\ ~tempoLog'[1].registered)
             => tempoListeners' = tempoListeners
                  /\ changeHandlers' = changeHandlers]_vars
  /\ [](\A i \in DOMAIN notified :
          /\ notified[i].key \in DOMAIN tempoListeners
          /\ notified[i].value
               = GetValue(flags, notified[i].key,
                          tempoListeners[notified[i].key].defaultValue,
                          tempoListeners[notified[i].key].divisor))

\* C36 (amended): a setcpmFlag call that does not throw applies, when setcpm
\* (or setCpm) is a function, the tempo computed with its own default and
\* divisor (100 and 1 when omitted), and no tempo when neither is or when the
\* call throws; the call registers a listener exactly when it does not throw
\* and the key has none, so the registering call is the first call for the
\* key that did not throw; the listener is never replaced and keeps the
\* arguments of that call; and what a listener computes, and applies, on a
\* notification is computed with those arguments.
C36_ArgumentsOfRegisteringCall ==
  /\ [](\A n \in DOMAIN tempoLog :
          LET e == tempoLog[n]
              Own(number) ==
                e.applied = IF hasSetcpm /\ number # TypeError
                              THEN <<number>> ELSE <<>>
          IN Own(GetValue([k \in Keys |-> IF k = e.key /\ ~e.absent
                                             THEN e.raw ELSE Absent],
                          e.key, e.defaultValue, e.divisor)))
  /\ [][/\ \A k \in DOMAIN tempoListeners :
             k \in DOMAIN tempoListeners' /\ tempoListeners'[k] = tempoListeners[k]
        /\ tempoLog' # tempoLog
             => LET e == tempoLog'[1]
                IN /\ e.registered <=> (~e.threw /\ e.key \notin DOMAIN tempoListeners)
                   /\ e.registered
                        => tempoListeners'[e.key]
                             = TempoHandler(e.key, e.defaultValue, e.divisor)
                   /\ ~e.registered
                        => tempoListeners' = tempoListeners
                             /\ changeHandlers' = changeHandlers]_vars
  /\ [](\A i \in DOMAIN notified :
          /\ notified[i].key \in DOMAIN tempoListeners
          /\ notified[i].value
               = GetValue(flags, notified[i].key,
                          tempoListeners[notified[i].key].defaultValue,
                          tempoListeners[notified[i].key].divisor))
  /\ [][(hasSetcpm /\ notified' # notified /\ notified' # <<>>
           /\ notified'[Len(notified')].value # TypeError)
          => cpm' = notified'[Len(notified')].value]_vars

\* The latest call for the key had other arguments than the call that
\* registered the listener, and what the listener computed and applied on
\* the notification since is computed with its own arguments.
C36_Witness ==
  /\ provider = "ready"
  /\ tempoLog # <<>>
  /\ tempoLog[1].key = FlagKey
  /\ ~tempoLog[1].registered /\ ~tempoLog[1].threw
  /\ tempoLog[1].absent
  /\ flags[FlagKey] # Absent
  /\ tempoLog[1].divisor # tempoListeners[FlagKey].divisor
  /\ Len(notified) = 1 /\ notified[1].key = FlagKey
  /\ cpm = notified[1].value
  /\ cpm = GetValue(flags, FlagKey, tempoListeners[FlagKey].defaultValue,
                    tempoListeners[FlagKey].divisor)
  /\ cpm # GetValue(flags, FlagKey, tempoLog[1].defaultValue,
                    tempoLog[1].divisor)

---------------------------------------------------------------------------
(* Properties of the caches                                                *)

\* C27: the cache pair of a flag() instance is empty, or its string is one
\* with embedded pattern syntax that parses and its pattern is the result of
\* parsing that string; this holds before and after every query.
C27_FlagCacheConsistent ==
  \A c \in { flagCache[i] : i \in DOMAIN flagCache }
           \cup { flagLog[n].before : n \in DOMAIN flagLog }
           \cup { flagLog[n].after : n \in DOMAIN flagLog } :
    \/ c = NoCache
    \/ /\ IsString(c.cachedValue)
       /\ \E i \in 1..Len(c.cachedValue[2]) :
            c.cachedValue[2][i] \in {"<", ">", "[", "]", "*", "!", "@", ","}
       /\ ~MiniThrows(c.cachedValue[2])
       /\ c.cachedPattern = Mini(c.cachedValue[2])

\* A string was parsed and cached, a later string failed to parse, and the
\* pair still holds the first string and its pattern.
C27_Witness ==
  /\ Len(flagLog) = 2
  /\ flagLog[1].parsed /\ ~flagLog[1].failed
  /\ flagLog[2].failed
  /\ flagCache[1] = flagLog[1].after
  /\ flagCache[1].cachedValue = flagLog[1].value
  /\ flagCache[1].cachedValue # flagLog[2].value

\* C28 (as claimed): the cache pair of a selector is unresolved, or its
\* pattern is the one the registry entry produces that its name resolves to
\* (the name's entry, else defaultVariation's entry): the entry itself when
\* it is a pattern, a pattern built by the entry when it is a factory; also
\* after a query in which the factory threw.
C28_LeadCacheConsistent ==
  \A i \in DOMAIN leadCache :
    LET c == leadCache[i]
        entry == PatternFactory(c.cachedVariationKey)
    IN \/ c = Unresolved
       \/ /\ Truthy(entry)
          /\ c.cachedPattern[1] = "pattern"
          /\ entry[1] = "function" => c.cachedPattern[2] = entry[2]
          /\ entry[1] = "pattern" => c.cachedPattern = entry

C30_SyntaxDetection ==
  /\ \A n \in DOMAIN flagLog :
       LET e == flagLog[n]
           syntax == /\ e.value[1] = "str"
                     /\ \E i \in 1..Len(e.value[2]) :
                          e.value[2][i] \in {"<", ">", "[", "]", "*", "!", "@", ","}
       IN /\ e.parsed => syntax
          /\ ~syntax => /\ ~e.parsed
                         /\ e.after = e.before
                         /\ e.out = PureQuery(e.value, e.win)
  /\ \A n \in FlagPairs :
       (~hasMiniNotation(flagLog[n].value)
          /\ flagLog[n].before.cachedValue = flagLog[n + 1].value)
         => ~flagLog[n + 1].parsed /\ flagLog[n + 1].after = flagLog[n].before

\* A plain string was queried while an embedded-syntax string was cached,
\* and the next query, on the cached string again, did not parse.
C30_Witness ==
  /\ Len(flagLog) = 2
  /\ flagLog[1].value = Strings.plain
  /\ flagLog[1].before.cachedValue = Strings.group
  /\ flagLog[1].out = PureQuery(Strings.plain, flagLog[1].win)
  /\ flagLog[2].value = Strings.group
  /\ ~flagLog[2].parsed
  /\ Len(flagLog[2].out) = 1

---------------------------------------------------------------------------
(* Properties of the stateless bridges                                     *)

\* C14 (as claimed): a query of toggle returns exactly the base pattern's
\* events of the window when the value the store holds under the key (the
\* default, true when omitted, when the key is absent) is truthy, and no
\* event when it is falsy; never some of the base events; whatever was
\* queried before.
C14_AllOrNothing ==
  \A n \in { m \in DOMAIN bridgeLog : bridgeLog[m].kind \in {"toggle"} } :
    LET e == bridgeLog[n]
        Gate(enabled) ==
          /\ e.out = IF Truthy(enabled) THEN BaseQuery(e.win) ELSE <<>>
          /\ e.out \in {BaseQuery(e.win), <<>>}
    IN Gate(IF e.absent
              THEN (IF bridgeDefault = Undefined THEN Bool(TRUE) ELSE bridgeDefault)
              ELSE e.stored)

\* C14 (amended): a query of toggle returns exactly the base pattern's
\* events of the window when flags[K] ?? default is truthy, and no event
\* when it is falsy; never some of the base events; whatever was queried
\* before.  flags[K] is what reading the store under K gives: its own value,
\* else what the store inherits from Object.prototype under that name (a
\* function, which is truthy, under constructor), else undefined; the
\* default (true when omitted) stands in when that is undefined or null, a
\* null or undefined the store holds included.
C14_AllOrNothingOnValueRead ==
  /\ [](\A n \in { m \in DOMAIN bridgeLog : bridgeLog[m].kind \in {"toggle"} } :
          LET e == bridgeLog[n]
              default == IF bridgeDefault = Undefined THEN Bool(TRUE)
                         ELSE bridgeDefault
              Gate(enabled) ==
                /\ e.out = IF Truthy(enabled) THEN BaseQuery(e.win) ELSE <<>>
                /\ e.out \in {BaseQuery(e.win), <<>>}
          IN /\ Gate(IF e.stored \in {Undefined, Null} THEN default ELSE e.stored)
             /\ (e.absent /\ bridgeKey = OtherKey) => e.out = BaseQuery(e.win))
  /\ [][(bridgeLog' # bridgeLog /\ bridgeKind = "toggle")
          => /\ bridgeLog'[1].absent <=> flags[bridgeKey] = Absent
             /\ bridgeLog'[1].stored
                  = IF flags[bridgeKey] # Absent THEN flags[bridgeKey]
                    ELSE IF bridgeKey = OtherKey
                      THEN <<"builtin", "constructor">>
                    ELSE Undefined]_vars

\* The store holds null under the key and the default is omitted: the gate
\* passes the second cycle.
C14_Witness ==
  /\ bridgeLog # <<>> /\ bridgeKind = "toggle"
  /\ bridgeLog[1].win = 1
  /\ ~bridgeLog[1].absent /\ bridgeLog[1].stored = Null
  /\ bridgeDefault = Undefined
  /\ bridgeLog[1].out = BaseQuery(1)
  /\ bridgeLog[1].out # <<>>

\* The number of events of the layers before layer i.
RECURSIVE LayerStart(_, _, _)
LayerStart(speeds, i, w) ==
  IF i = 1 THEN 0
  ELSE LayerStart(speeds, i - 1, w) + Len(FastQuery(speeds[i - 1], w))

\* C15: with a non-empty array of speeds a query of polySpeed returns the
\* events of the base pattern sped up by each speed, the layers in the order
\* of the array, each layer being what the base pattern sped up by that
\* speed returns when queried on its own.
C15_Layers ==
  \A n \in { m \in DOMAIN bridgeLog : bridgeLog[m].kind \in {"polySpeed"} } :
    LET e == bridgeLog[n]
        speeds == e.value[2]
    IN (e.value[1] = "arr" /\ speeds # <<>>)
         => /\ Len(e.out) = LayerStart(speeds, Len(speeds) + 1, e.win)
            /\ \A i \in 1..Len(speeds) :
                 SubSeq(e.out, LayerStart(speeds, i, e.win) + 1,
                        LayerStart(speeds, i + 1, e.win))
                   = FastQuery(speeds[i], e.win)

\* Two layers at different speeds, queried over the second cycle.
C15_Witness ==
  /\ bridgeLog # <<>> /\ bridgeKind = "polySpeed"
  /\ Content(bridgeLog[1].value) = Arr(<<Num(1), Num(2)>>)
  /\ bridgeLog[1].win = 1
  /\ Len(bridgeLog[1].out) = 3
  /\ bridgeLog[1].out[1].d = 1 /\ bridgeLog[1].out[3].d = 2

\* C16: with the empty array a query of polySpeed returns the base pattern's
\* events at its own speed; with a number s it returns the events of the
\* base pattern sped up by s, and so it does with the array [s].
C16_Degenerate ==
  \A n \in { m \in DOMAIN bridgeLog : bridgeLog[m].kind \in {"polySpeed"} } :
    LET e == bridgeLog[n]
    IN /\ Content(e.value) = Arr(<<>>)
            => e.out = BaseQuery(e.win) /\ e.out = FastQuery(Num(1), e.win)
       /\ e.value[1] = "num" => e.out = FastQuery(e.value, e.win)
       /\ (e.value[1] = "arr" /\ Len(e.value[2]) = 1)
            => e.out = FastQuery(e.value[2][1], e.win)

\* The empty array was served and the base events came back.
C16_Witness ==
  /\ bridgeLog # <<>> /\ bridgeKind = "polySpeed"
  /\ ~bridgeLog[1].absent
  /\ Content(bridgeLog[1].value) = Arr(<<>>)
  /\ Len(bridgeLog[1].out) = 1

\* C17 (as claimed): in every event a bundle query returns, the gain is the
\* base event's gain (1 when it has none) times the bundle's gain (1 when it
\* has none).
C17_GainMultiplies ==
  \A n \in { m \in DOMAIN bridgeLog : bridgeLog[m].kind \in Bundles } :
    LET e == bridgeLog[n]
    IN ~e.threw
         => \A i \in DOMAIN e.out :
              e.out[i].value[2].gain
                = Times(ToNumber(OrDefault(Prop(Obj(baseValue), "gain"), Num(1))),
                        ToNumber(OrDefault(Prop(ParsedValue(e.value), "gain"), Num(1))))

\* C17 (amended): in every event a bundle query returns, the gain is the
\* base event's gain (1 when it has none, and when it is null or undefined)
\* times the bundle's gain (1 when the bundle has none or an undefined one;
\* a null one counts as 0), each converted to a number; a query in which one
\* of the two cannot be converted returns no event: it throws.
C17_GainMultipliesConverted ==
  \A n \in { m \in DOMAIN bridgeLog : bridgeLog[m].kind \in Bundles } :
    LET e == bridgeLog[n]
        existing == Prop(Obj(baseValue), "gain")
        Product(factor) ==
          Times(ToNumber(IF existing \in {Undefined, Null} THEN Num(1) ELSE existing),
                ToNumber(IF factor = Undefined THEN Num(1) ELSE factor))
        Merged(bundle) ==
          /\ ~e.threw
               => \A i \in DOMAIN e.out :
                    e.out[i].value[2].gain = Product(Prop(bundle, "gain"))
          /\ (bundle \notin {Undefined, Null}
                /\ Product(Prop(bundle, "gain")) = TypeError)
               => e.threw /\ e.out = <<>>
    IN Merged(ParsedValue(e.value))

\* An event whose gain is null through a bundle of gain 1.5 has gain 1.5.
C17_Witness ==
  /\ bridgeLog # <<>> /\ bridgeKind = "drumKit"
  /\ Prop(Obj(baseValue), "gain") = Null
  /\ Prop(ParsedValue(bridgeLog[1].value), "gain") = <<"num", 3, 2>>
  /\ bridgeLog[1].out[1].value[2].gain = <<"num", 3, 2>>

\* The fields a bundle destructures by name.
Recognized(kind) ==
  IF kind = "drumKit" THEN {"bank", "gain"}
  ELSE IF kind = "bassSound" THEN {"sound", "lpf", "gain"}
  ELSE {"sound", "lpf", "lpq", "gain"}

\* The payload fields a bundle always writes.
Written(kind) == IF kind = "drumKit" THEN {"bank", "gain"} ELSE {"s", "gain"}

\* C18 (as claimed): every field of the bundle that is not a recognized one
\* is in the payload of every event returned, with the bundle's value, and
\* every field of the base payload that the bundle does not mention keeps
\* its value.
C18_PassThrough ==
  \A n \in { m \in DOMAIN bridgeLog : bridgeLog[m].kind \in Bundles } :
    LET e == bridgeLog[n]
        bundle == Props(ParsedValue(e.value))
    IN ~e.threw
         => \A i \in DOMAIN e.out :
              LET payload == e.out[i].value[2]
              IN /\ \A f \in DOMAIN bundle \ Recognized(e.kind) :
                      f \in DOMAIN payload /\ payload[f] = bundle[f]
                 /\ \A f \in DOMAIN baseValue \ DOMAIN bundle :
                      f \in DOMAIN payload /\ payload[f] = baseValue[f]

\* C18 (amended): every field of the bundle that is not a recognized one and
\* not a field the bundle always writes is in the payload of every event
\* returned, with the bundle's value; every field of the base payload that
\* the bundle does not mention and does not always write keeps its value;
\* the fields always written are gain and bank (drumKit) or s (bassSound,
\* leadSound), bank and s taking the bundle's bank or sound, else the
\* built-in default, whatever the base payload or the bundle's s held.
C18_PassThroughExceptWritten ==
  \A n \in { m \in DOMAIN bridgeLog : bridgeLog[m].kind \in Bundles } :
    LET e == bridgeLog[n]
        bundle == Props(ParsedValue(e.value))
    IN ~e.threw
         => \A i \in DOMAIN e.out :
              LET payload == e.out[i].value[2]
              IN /\ \A f \in DOMAIN bundle \ (Recognized(e.kind) \cup Written(e.kind)) :
                      f \in DOMAIN payload /\ payload[f] = bundle[f]
                 /\ \A f \in DOMAIN baseValue \ (DOMAIN bundle \cup Written(e.kind)) :
                      f \in DOMAIN payload /\ payload[f] = baseValue[f]
                 /\ e.kind = "drumKit"
                      => payload.bank = OrDefault(Prop(ParsedValue(e.value), "bank"), RolandTR808)
                 /\ e.kind = "bassSound"
                      => payload.s = OrDefault(Prop(ParsedValue(e.value), "sound"), GmSynthBass2)
                 /\ e.kind = "leadSound"
                      => payload.s = OrDefault(Prop(ParsedValue(e.value), "sound"), Sawtooth)

\* A room effect passed through by drumKit next to a kept lpf of the event.
C18_Witness ==
  /\ bridgeLog # <<>> /\ bridgeKind = "drumKit"
  /\ "room" \in DOMAIN Props(ParsedValue(bridgeLog[1].value))
  /\ "lpf" \in DOMAIN baseValue
  /\ bridgeLog[1].out[1].value[2].room = Num(1)
  /\ bridgeLog[1].out[1].value[2].lpf = Num(100)

\* C19 (as claimed): whatever value the store holds under the key, a query
\* of a stateless bridge raises no exception.
C19_NoException ==
  \A n \in DOMAIN bridgeLog : ~bridgeLog[n].threw

\* C26: no step of another kind is taken while a query is in progress, so
\* the store does not change between the start and the end of a query:
\* every read of the store the query makes, the one in the callback of every
\* event of a bundle included, gives the value the store held (or the
\* default) when the query started, and every event it returns is derived
\* from that one value.
C26_QueryAtomic ==
  /\ [][running # <<>>
          => /\ UNCHANGED <<flags, carried, served, ldClient, provider, promise,
                            changeHandlers, flagVars, leadVars, tempoVars, dirty>>
             /\ running' = <<>> \/ running'.win = running.win]_vars
  /\ [][bridgeLog' # bridgeLog
          => /\ flags' = flags
             /\ bridgeLog'[1].value
                  = Nullish(Stored(flags, bridgeKey), bridgeLog'[1].defaultValue)]_vars
  /\ [](\A n \in DOMAIN bridgeLog :
          LET e == bridgeLog[n]
          IN /\ \A i \in DOMAIN e.reads : e.reads[i] = e.value
             /\ (e.kind \in Bundles /\ ~e.threw)
                  => /\ Len(e.reads) = Len(BaseQuery(e.win))
                     /\ Len(e.out) = Len(BaseQuery(e.win))
                     /\ \A i \in DOMAIN e.out :
                          e.out[i].value
                            = BundleValue(e.kind, e.value, baseValue)
             /\ e.kind = "polySpeed" => e.out = PolySpeedEvents(e.value, e.win)
             /\ e.kind = "toggle" => e.out = ToggleEvents(e.value, e.win))

\* A drumKit query that returned two events, each from a read of its own,
\* both merged with the bundle a notification had stored.
C26_Witness ==
  /\ bridgeLog # <<>>
  /\ running = <<>>
  /\ bridgeLog[1].kind = "drumKit"
  /\ ~bridgeLog[1].absent
  /\ provider = "ready"
  /\ Len(bridgeLog[1].reads) = 2
  /\ Len(bridgeLog[1].out) = 2
  /\ \A i \in {1, 2} :
       /\ "room" \in DOMAIN bridgeLog[1].out[i].value[2]
       /\ bridgeLog[1].out[i].value[2].room = Num(1)
       /\ bridgeLog[1].out[i].value[2].bank = RolandTR909
  /\ bridgeLog[1].out[1].b # bridgeLog[1].out[2].b

\* C31 (as claimed): when the value read is a text that JSON.parse rejects,
\* every event a bundle query returns has the built-in default in the
\* recognized target field (bank RolandTR808 for drumKit, s gm_synth_bass_2
\* for bassSound, s sawtooth for leadSound), its gain times 1, and otherwise
\* the fields of the base event with their values: no field is added.
C31_DecodeFallback ==
  \A n \in { m \in DOMAIN bridgeLog : bridgeLog[m].kind \in Bundles } :
    LET e == bridgeLog[n]
        target == IF e.kind = "drumKit" THEN "bank" ELSE "s"
        builtin == IF e.kind = "drumKit" THEN RolandTR808
                   ELSE IF e.kind = "bassSound" THEN GmSynthBass2
                   ELSE Sawtooth
    IN (IsString(e.value) /\ JsonThrows(e.value[2]))
         => /\ ~e.threw
            /\ Len(e.out) = Len(BaseQuery(e.win))
            /\ \A i \in DOMAIN e.out :
                 LET payload == e.out[i].value[2]
                 IN /\ DOMAIN payload = DOMAIN baseValue \cup {target, "gain"}
                    /\ payload[target] = builtin
                    /\ payload.gain
                         = IF "gain" \in DOMAIN baseValue THEN baseValue.gain
                           ELSE Num(1)
                    /\ \A f \in DOMAIN baseValue \ {target, "gain"} :
                         payload[f] = baseValue[f]

\* C32: in every event bassSound returns, lpf is the bundle's lpf when the
\* bundle defines one, and in every event leadSound returns so are lpf and
\* lpq; a field the bundle does not define is as in the base event (its
\* value, or no such field); s is the bundle's sound, or the built-in
\* default when the bundle names none.
C32_FilterFields ==
  \A n \in { m \in DOMAIN bridgeLog :
               bridgeLog[m].kind \in {"bassSound", "leadSound"} } :
    LET e == bridgeLog[n]
        bundle == ParsedValue(e.value)
        filters == IF e.kind = "bassSound" THEN {"lpf"} ELSE {"lpf", "lpq"}
    IN ~e.threw
         => \A i \in DOMAIN e.out :
              LET payload == e.out[i].value[2]
              IN /\ \A f \in filters :
                      IF Prop(bundle, f) # Undefined
                        THEN f \in DOMAIN payload /\ payload[f] = Prop(bundle, f)
                        ELSE /\ f \in DOMAIN payload <=> f \in DOMAIN baseValue
                             /\ f \in DOMAIN baseValue
                                  => payload[f] = baseValue[f]
                 /\ payload.s
                      = IF Prop(bundle, "sound") # Undefined
                          THEN Prop(bundle, "sound")
                        ELSE IF e.kind = "bassSound" THEN GmSynthBass2
                        ELSE Sawtooth

\* leadSound on a bundle without lpf and lpq: the event keeps its lpf of 100
\* and gets no lpq, and s is sawtooth.
C32_Witness ==
  /\ bridgeLog # <<>> /\ bridgeKind = "leadSound"
  /\ ~bridgeLog[1].absent
  /\ Prop(ParsedValue(bridgeLog[1].value), "lpf") = Undefined
  /\ Len(bridgeLog[1].out) = 1
  /\ "lpf" \in DOMAIN bridgeLog[1].out[1].value[2]
  /\ bridgeLog[1].out[1].value[2].lpf = Num(100)
  /\ "lpq" \notin DOMAIN bridgeLog[1].out[1].value[2]
  /\ bridgeLog[1].out[1].value[2].s = Sawtooth

\* C33 (as claimed): when the store holds the key, the events a bundle query
\* returns are those it returns with no default argument at all: no field of
\* the caller's default bundle is used, every field of the payload comes from
\* the base event, from the flag's bundle or is a target field, and a target
\* field the flag's bundle lacks has the built-in default (gain: factor 1).
C33_DefaultReplaced ==
  \A n \in { m \in DOMAIN bridgeLog : bridgeLog[m].kind \in Bundles } :
    LET e == bridgeLog[n]
        target == IF e.kind = "drumKit" THEN "bank" ELSE "s"
        builtin == IF e.kind = "drumKit" THEN RolandTR808
                   ELSE IF e.kind = "bassSound" THEN GmSynthBass2
                   ELSE Sawtooth
        Replaced(bundle) ==
          \A i \in DOMAIN e.out :
            LET payload == e.out[i].value[2]
            IN /\ DOMAIN payload \subseteq
                    DOMAIN baseValue \cup DOMAIN Props(bundle) \cup {target, "gain"}
               /\ Prop(bundle, IF e.kind = "drumKit" THEN "bank" ELSE "sound")
                    = Undefined
                    => payload[target] = builtin
               /\ Prop(bundle, "gain") = Undefined
                    => payload.gain = Gain(baseValue, Num(1))
    IN (~e.absent /\ ~e.threw) => Replaced(ParsedValue(e.stored))

\* C33 (amended): when what reading the store under the key gives is neither
\* undefined nor null, no field of the caller's default bundle is used:
\* every field of the payload comes from the base event, from the flag's
\* bundle or is a target field, and a target field the flag's bundle lacks
\* has the built-in default (gain: factor 1).  A null or an undefined the
\* store holds under the key is replaced, like an absent key, by the
\* caller's default bundle as a whole.
C33_DefaultReplacedUnlessNullish ==
  \A n \in { m \in DOMAIN bridgeLog : bridgeLog[m].kind \in Bundles } :
    LET e == bridgeLog[n]
        target == IF e.kind = "drumKit" THEN "bank" ELSE "s"
        builtin == IF e.kind = "drumKit" THEN RolandTR808
                   ELSE IF e.kind = "bassSound" THEN GmSynthBass2
                   ELSE Sawtooth
        Replaced(bundle) ==
          \A i \in DOMAIN e.out :
            LET payload == e.out[i].value[2]
            IN /\ DOMAIN payload \subseteq
                    DOMAIN baseValue \cup DOMAIN Props(bundle) \cup {target, "gain"}
               /\ Prop(bundle, IF e.kind = "drumKit" THEN "bank" ELSE "sound")
                    = Undefined
                    => payload[target] = builtin
               /\ Prop(bundle, "gain") = Undefined
                    => payload.gain = Gain(baseValue, Num(1))
    IN /\ (e.stored \notin {Undefined, Null} /\ ~e.threw)
            => Replaced(ParsedValue(e.stored))
       /\ e.stored \in {Undefined, Null}
            => /\ \A i \in DOMAIN e.reads : e.reads[i] = e.defaultValue
               /\ e.out = BridgeEvents(e.kind, e.defaultValue, e.win)

\* drumKit built with the default bundle { bank: RolandTR909 }, the store
\* holding a bundle with a gain and no bank: the bank is RolandTR808.
C33_Witness ==
  /\ bridgeLog # <<>> /\ bridgeKind = "drumKit"
  /\ bridgeDefault = Obj([bank |-> RolandTR909])
  /\ bridgeLog[1].stored = Texts.gain
  /\ "bank" \notin DOMAIN baseValue
  /\ Len(bridgeLog[1].out) = 1
  /\ bridgeLog[1].out[1].value[2].bank = RolandTR808

\* C34 (as claimed): every query of drumKit, bassSound or leadSound returns
\* one event per event of the base pattern, in the same order and with the
\* same time extent.
C34_PayloadOnly ==
  \A n \in { m \in DOMAIN bridgeLog : bridgeLog[m].kind \in Bundles } :
    LET e == bridgeLog[n]
    IN /\ Len(e.out) = Len(BaseQuery(e.win))
       /\ \A i \in DOMAIN e.out :
            /\ e.out[i].b = BaseQuery(e.win)[i].b
            /\ e.out[i].e = BaseQuery(e.win)[i].e
            /\ e.out[i].d = BaseQuery(e.win)[i].d

---------------------------------------------------------------------------
(* Properties of initialization                                            *)

\* C20 (as claimed): whenever the promise returned by a call of
\* initLaunchDarkly, the first or a repeated one, has resolved, the
\* provider's initial snapshot has been received and merged into the store.
C20_ResolvedAfterSnapshot ==
  promise = "resolved" => provider = "ready"

\* C21 (as claimed): once the provider has reported that the connection
\* failed, the promise initLaunchDarkly returned is rejected, the store is as
\* it was before the failure (empty: nothing was merged), and every bridge
\* read made since, the key being absent, used the default it was given.
C21_FailureRejects ==
  provider = "failed"
    => /\ promise = "rejected"
       /\ flags = [k \in Keys |-> Absent]
       /\ \A n \in DOMAIN flagLog : flagLog[n].value = flagDefault
       /\ \A n \in DOMAIN leadLog : leadLog[n].key = defaultVariation
       /\ \A n \in DOMAIN bridgeLog :
            bridgeLog[n].value = bridgeLog[n].defaultValue
       /\ \A n \in DOMAIN tempoLog :
            tempoLog[n].absent /\ tempoLog[n].raw = Undefined

\* C37: whatever the number of initLaunchDarkly calls, there is one
\* store-updating change handler when a client exists and none before; once
\* a client exists no step creates another (the connection is not started
\* again, no handler of the store is added), and a call that does no more
\* than return a resolved promise leaves the store, the handlers and the
\* connection as they were.
C37_InitIdempotent ==
  /\ [](Cardinality({ n \in DOMAIN changeHandlers :
                        changeHandlers[n].kind = "store" })
          = IF ldClient THEN 1 ELSE 0)
  /\ [][ldClient
         => /\ ldClient'
            /\ provider' = "connecting" => provider = "connecting"
            /\ \A n \in DOMAIN changeHandlers :
                 n \in DOMAIN changeHandlers'
                   /\ changeHandlers'[n] = changeHandlers[n]
            /\ (promise = "pending" /\ promise' = "resolved"
                  /\ provider' = "connecting")
                 => UNCHANGED <<flags, carried, changeHandlers, provider,
                                tempoVars>>]_vars

\* A repeated call returned while the first one was still connecting: one
\* handler of the store, next to a tempo listener, and an empty store.
C37_Witness ==
  /\ ldClient
  /\ provider = "connecting"
  /\ promise = "resolved"
  /\ Len(changeHandlers) = 2
  /\ changeHandlers[1] = StoreHandler
  /\ changeHandlers[2].kind = "tempo"
  /\ \A k \in Keys : flags[k] = Absent

---------------------------------------------------------------------------
(* Properties of the Flag Store                                            *)

\* C22: no step removes a key from the store: a key that the store holds
\* before a step (a ready snapshot, a change notification, a query, a
\* setcpmFlag call, an initLaunchDarkly call, a failure) it holds after it.
C22_NoDeletion ==
  [][\A k \in Keys : flags[k] # Absent => flags'[k] # Absent]_vars

\* The snapshot set both keys and a later notification overwrote one of them:
\* the instance's last query saw another value under the key.
C22_Witness ==
  /\ provider = "ready"
  /\ \A k \in Keys : flags[k] # Absent
  /\ flagLog # <<>>
  /\ ~flagLog[Len(flagLog)].absent
  /\ flagLog[Len(flagLog)].value # flags[FlagKey]

\* C23: after any sequence of the ready snapshot and change notifications the
\* store holds, for every key, the value carried for it by the most recent
\* snapshot or notification that mentioned it (nothing when none did); so a
\* notification leaves the keys it does not mention as they were.
C23_LastWriteWins ==
  \A k \in Keys : flags[k] = carried[k]

\* A notification for the key alone replaced the value that the snapshot had
\* set, seen by a query in between, and left the other key's value.
C23_Witness ==
  /\ provider = "ready"
  /\ bridgeKey = FlagKey
  /\ flags[OtherKey] # Absent
  /\ bridgeLog # <<>>
  /\ ~bridgeLog[1].absent
  /\ bridgeLog[1].stored # flags[FlagKey]
  /\ carried[FlagKey] = flags[FlagKey]

\* C24: a step that changes the store is the ready snapshot or a change
\* notification, and no query (flag, polySpeed, drumKit, bassSound,
\* leadSound, toggle, getLeadArrangement) and no setcpmFlag call is part of
\* it: queries and setcpmFlag calls leave every key and value as it was.
C24_ReadOnly ==
  [][flags' # flags
       => /\ provider \in {"connecting", "ready"} /\ provider' = "ready"
          /\ UNCHANGED <<flagVars, leadVars, tempoListeners, tempoLog,
                         bridgeVars>>]_vars

\* setcpmFlag read a key the store holds, and the store still holds the
\* values the provider carried.
C24_Witness ==
  /\ flags[FlagKey] # Absent
  /\ flags = carried
  /\ tempoLog # <<>>
  /\ ~tempoLog[1].absent
  /\ tempoLog[1].raw = flags[tempoLog[1].key]

---------------------------------------------------------------------------
(* Properties of two instances of one bridge                               *)

\* C25: with two flag() instances, or two getLeadArrangement instances, for
\* one key, a step changes the cache pair of an instance only when it is a
\* query of that very instance (the other instance's pair is as it was), and
\* every instance finds its pair empty at its own first query, so that it
\* parses the string (when there is embedded syntax) or invokes the factory
\* (when the entry found is a function) itself.
C25_CacheIsolation ==
  /\ [][/\ \A i \in DOMAIN flagCache :
             flagCache'[i] # flagCache[i]
               => /\ flagLog' # <<>>
                  /\ flagLog'[Len(flagLog')].inst = i
                  /\ flagLog'[Len(flagLog')].before = flagCache[i]
                  /\ flagLog'[Len(flagLog')].after = flagCache'[i]
        /\ \A i \in DOMAIN leadCache :
             leadCache'[i] # leadCache[i]
               => /\ leadLog' # <<>>
                  /\ leadLog'[Len(leadLog')].inst = i
                  /\ leadLog'[Len(leadLog')].before = leadCache[i]
                  /\ leadLog'[Len(leadLog')].after = leadCache'[i]]_vars
  /\ [](/\ \A n \in DOMAIN flagLog :
             flagLog[n].first
               => /\ flagLog[n].before = NoCache
                  /\ hasMiniNotation(flagLog[n].value) => flagLog[n].parsed
        /\ \A n \in DOMAIN leadLog :
             leadLog[n].first
               => /\ leadLog[n].before = Unresolved
                  /\ FoundFactory(leadLog[n]) => leadLog[n].called)

\* The second instance parsed, at its first query, the string the first
\* instance had parsed and cached just before.
C25_Witness ==
  /\ Len(flagLog) = 2
  /\ flagLog[1].inst = 1 /\ flagLog[2].inst = 2
  /\ flagLog[1].value = flagLog[2].value
  /\ flagLog[1].parsed /\ flagLog[1].after.cachedValue = flagLog[1].value
  /\ flagLog[2].first /\ flagLog[2].parsed
  /\ flagCache[1] = flagCache[2]

---------------------------------------------------------------------------
(* Properties of the whole bridge layer                                    *)

\* C3 (as claimed): a query made while the key is absent from the store has
\* the outcome the bridge computes from its default value: flag, polySpeed,
\* drumKit, bassSound, leadSound, toggle and getLeadArrangement return the
\* events (or raise the exception) of the default, and setcpmFlag applies the
\* tempo it computes from a store that holds the default under the key.
C3_AbsenceIsDefault ==
  /\ \A n \in DOMAIN flagLog :
       LET e == flagLog[n]
       IN e.absent => /\ e.value = flagDefault
                      /\ e.out = FlagEvents(flagDefault, e.before, e.win)
  /\ \A n \in DOMAIN leadLog :
       LET e == leadLog[n]
       IN e.absent => /\ e.key = defaultVariation
                      /\ e.threw = LeadThrows(PatternFactory(defaultVariation),
                                           defaultVariation, e.before)
                      /\ e.out = LeadEvents(PatternFactory(defaultVariation),
                                         defaultVariation, e.before, e.win)
  /\ \A n \in DOMAIN bridgeLog :
       LET e == bridgeLog[n]
           defaultValue == DefaultArg(bridgeKind, bridgeDefault)
       IN e.absent => /\ e.value = defaultValue
                      /\ e.threw = BridgeThrows(bridgeKind, defaultValue)
                      /\ e.out = BridgeEvents(bridgeKind, defaultValue, e.win)
  /\ \A n \in DOMAIN tempoLog :
       LET e == tempoLog[n]
       IN (e.absent /\ e.applied # <<>>)
            => e.applied[1]
                 = GetValue([k \in Keys |-> IF k = e.key THEN e.defaultValue
                                            ELSE Absent],
                            e.key, e.defaultValue, e.divisor)

====
